---- MODULE Spec2Model ----
(***************************************************************************)
(* A model of the prices-predictor-system strategy wrappers: archive       *)
(* ingestion, missing-value handling, feature engineering, outlier         *)
(* detection/handling and train/test splitting.                            *)
(*                                                                         *)
(* A call is modelled as one atomic action (the program is single-threaded *)
(* and synchronous): `call` records the operation and its parameters, `df` *)
(* is the caller's dataset, `out` what the call returned or raised, and    *)
(* `extracted_data` the contents of the relative directory                 *)
(* "extracted_data" that ZipDataIngestor.ingest extracts into.             *)
(* `strategy` is the strategy object a context (OutlierDetector) holds.    *)
(* `shuffle` is the row permutation numpy's generator yields for each seed *)
(* (a fixed function of the seed and the row count, not known here).       *)
(***************************************************************************)
EXTENDS Integers, Sequences, FiniteSets, TLC

VARIABLES extracted_data, df, call, out, strategy, shuffle

vars == <<extracted_data, df, call, out, strategy, shuffle>>

(***************************************************************************)
(* Bounds of the model.                                                    *)
(***************************************************************************)
\* largest number of data rows of a CSV file inside an archive
MaxCsvRows == 1
\* largest number of rows of an input dataset
MaxRows == 3
\* numeric cells of an input dataset are drawn from 0..MaxVal (and NaN)
MaxVal == 1
\* categorical cells of an input dataset are drawn from 1..MaxCats (and NaN)
MaxCats == 2
\* largest number of rows of a dataset given to feature engineering
MaxFeatRows == 2
\* explicit z-score thresholds are drawn from 0..MaxThreshold
MaxThreshold == 1

(***************************************************************************)
(* Program constants.                                                      *)
(***************************************************************************)
\* ZScoreOutlierDetection.__init__(self, threshold=3)
DefaultThreshold == 3
\* SimpleTrainTestSplitStrategy.__init__(self, test_size=0.2, random_state=42)
DefaultRandomState == 42

(***************************************************************************)
(* Values and datasets.                                                    *)
(*                                                                         *)
(* A cell is a record [k, n, d]: k = "num" is the rational n/d in lowest   *)
(* terms (d > 0), k = "nan" is a missing value (NaN/None), k = "str" is    *)
(* the categorical value with code n.                                      *)
(***************************************************************************)
Abs(x) == IF x < 0 THEN -x ELSE x

RECURSIVE Gcd(_, _)
Gcd(a, b) == IF b = 0 THEN a ELSE Gcd(b, a % b)

\* the rational n/d (d # 0) in lowest terms with a positive denominator
Rat(n, d) ==
    LET g == Gcd(Abs(n), Abs(d))
        s == IF d < 0 THEN -1 ELSE 1
    IN  [k |-> "num", n |-> (s * n) \div g, d |-> (s * d) \div g]

Num(i) == [k |-> "num", n |-> i, d |-> 1]
NaN == [k |-> "nan", n |-> 0, d |-> 1]
Str(c) == [k |-> "str", n |-> c, d |-> 1]
NoCat == [k |-> "none", n |-> 0, d |-> 1]

IsNull(c) == c.k = "nan"

\* a column label: an original column has cat = NoCat, a column generated by
\* the one-hot encoder is "<feat>_<cat>"
Col(name) == [feat |-> name, cat |-> NoCat]

\* A dataset (pandas DataFrame): column labels, per-column dtype
\* ("number" or "object"), the row index labels, and the rows.
DataFrame(cols, dtypes, index, data) ==
    [cols |-> cols, dtypes |-> dtypes, index |-> index, data |-> data]

NoData == DataFrame(<<>>, <<>>, <<>>, <<>>)

NRows(d) == Len(d.data)
NCols(d) == Len(d.cols)

\* what a call produced: a returned value or a raised exception
Return(v) == [status |-> "ok", exc |-> "", msg |-> "", value |-> v]
Raise(e, m) == [status |-> "raise", exc |-> e, msg |-> m, value |-> NoData]

NoCall == [op |-> "none"]
NoStrategy == [kind |-> "none", threshold |-> 0]
NoShuffle == [r \in {} |-> <<>>]

(***************************************************************************)
(* Rational arithmetic and column statistics (pandas/numpy semantics, in   *)
(* exact arithmetic).                                                      *)
(***************************************************************************)
RatAdd(a, b) == Rat(a.n * b.d + b.n * a.d, a.d * b.d)
RatSub(a, b) == Rat(a.n * b.d - b.n * a.d, a.d * b.d)
RatMul(a, b) == Rat(a.n * b.n, a.d * b.d)
\* a < b, a <= b for "num" cells; also orders "str" cells by code
Less(a, b) == a.n * b.d < b.n * a.d
Leq(a, b) == a.n * b.d <= b.n * a.d

RECURSIVE SumSeq(_)
SumSeq(s) == IF s = <<>> THEN Num(0) ELSE RatAdd(Head(s), SumSeq(Tail(s)))

\* column j of dataset d as a sequence of cells, and its non-null cells
Column(d, j) == [i \in 1..NRows(d) |-> d.data[i][j]]
NotNull(s) == SelectSeq(s, LAMBDA c : ~IsNull(c))

\* the k-th smallest (1-based) of a non-empty sequence of comparable cells
Kth(s, k) ==
    CHOOSE v \in { s[i] : i \in 1..Len(s) } :
        /\ Cardinality({ i \in 1..Len(s) : Less(s[i], v) }) < k
        /\ k <= Cardinality({ i \in 1..Len(s) : Leq(s[i], v) })

\* Series.mean(): the mean of the non-null cells, NaN if there is none
Mean(s) ==
    LET v == NotNull(s)
    IN  IF v = <<>> THEN NaN
        ELSE LET t == SumSeq(v) IN Rat(t.n, t.d * Len(v))

\* Series.median(): the middle non-null value, the mean of the two middle
\* ones for an even count, NaN if there is none
Median(s) ==
    LET v == NotNull(s)
        m == Len(v)
    IN  IF m = 0 THEN NaN
        ELSE IF m % 2 = 1 THEN Kth(v, (m + 1) \div 2)
        ELSE LET t == RatAdd(Kth(v, m \div 2), Kth(v, m \div 2 + 1))
             IN  Rat(t.n, t.d * 2)

\* Series.mode(): the most frequent non-null values in ascending order;
\* the empty sequence if every cell is null
Count(s, v) == Cardinality({ i \in 1..Len(s) : s[i] = v })
Modes(s) ==
    LET v == NotNull(s)
        vals == { v[i] : i \in 1..Len(v) }
    IN  { x \in vals : \A y \in vals : Count(v, y) <= Count(v, x) }
FirstMode(s) == CHOOSE x \in Modes(s) : \A y \in Modes(s) : Leq(x, y)

\* the position of a column label in a dataset, 0 if absent
ColIndex(d, c) ==
    IF \E j \in 1..NCols(d) : d.cols[j] = c
    THEN CHOOSE j \in 1..NCols(d) : d.cols[j] = c
    ELSE 0

\* d with cell (i, j) replaced by f(i, j, old cell); labels and dtypes kept
MapCells(d, f(_, _, _)) ==
    [d EXCEPT !.data =
        [i \in 1..NRows(d) |-> [j \in 1..NCols(d) |-> f(i, j, d.data[i][j])]]]

(***************************************************************************)
(* Missing-value handling (src/handle_missing_values.py).                  *)
(***************************************************************************)
\* DataFrame.fillna(stat) on the numeric columns: a null cell of a numeric
\* column takes its column's statistic when that statistic is not NaN
FillNumeric(d, stat(_)) ==
    MapCells(d, LAMBDA i, j, c :
        IF d.dtypes[j] = "number" /\ IsNull(c) /\ ~IsNull(stat(Column(d, j)))
        THEN stat(Column(d, j)) ELSE c)

\* the "mode" branch: Series.fillna(inplace=True) on df_cleaned[column].
\* df[column].mode().iloc[0] raises IndexError when the column has no
\* non-null cell. The inplace fill reaches df_cleaned only when
\* df_cleaned[column] is not a copy (pandas without Copy-on-Write).
FillMode(d, cow) ==
    IF \E j \in 1..NCols(d) : Modes(Column(d, j)) = {}
    THEN Raise("IndexError", "single positional indexer is out-of-bounds")
    ELSE IF cow THEN Return(d)
    ELSE Return(MapCells(d, LAMBDA i, j, c :
                    IF IsNull(c) THEN FirstMode(Column(d, j)) ELSE c))

\* DataFrame.fillna(value): fillna(None) raises ValueError
FillConstant(d, fill_value) ==
    IF fill_value = NoCat
    THEN Raise("ValueError", "Must specify a fill 'value' or 'method'")
    ELSE Return(MapCells(d, LAMBDA i, j, c :
                    IF IsNull(c) THEN fill_value ELSE c))

\* df_cleaned = df: another name for the caller's object
DataFrame_copy_Alias(ref) == ref

\* df.copy(): a new object; the operations below write into objects by
\* reference, "df" being the dataset the caller passed
DataFrame_copy(ref) == "copy"

\* the caller's dataset d after an operation wrote `written` into the
\* object `target`
Caller(d, target, written) == IF target = "df" THEN written ELSE d

\* mutant of Warn: nothing is logged
Warn_Silent(r) == r

\* logging.warning(...): the result carries the warning logged on the way
Warn(r) == [r EXCEPT !.msg = "WARNING"]

\* a fill that writes into every null cell, whatever the column
FillMissingValuesStrategy_handle_Everywhere(method, fill_value, d, cow) ==
    FillConstant(d, Num(0))

\* FillMissingValuesStrategy(method, fill_value).handle(df)
FillMissingValuesStrategy_handle(method, fill_value, d, cow) ==
    IF method = "mean" THEN Return(FillNumeric(d, Mean))
    ELSE IF method = "median" THEN Return(FillNumeric(d, Median))
    ELSE IF method = "mode" THEN FillMode(d, cow)
    ELSE IF method = "constant" THEN FillConstant(d, fill_value)
    ELSE Warn(Return(d))

\* what FillMissingValuesStrategy.handle writes in place into df_cleaned:
\* the item assignment of "mean"/"median"; the inplace fillna of "mode",
\* column by column until a column without a mode stops the loop, and only
\* without Copy-on-Write; "constant" rebinds the name and writes nothing
FillWritten(method, d, cow) ==
    IF method = "mean" THEN FillNumeric(d, Mean)
    ELSE IF method = "median" THEN FillNumeric(d, Median)
    ELSE IF method = "mode" /\ ~cow
    THEN LET bad == { j \in 1..NCols(d) : Modes(Column(d, j)) = {} }
         IN  MapCells(d, LAMBDA i, j, c :
                IF IsNull(c) /\ \A b \in bad : j < b
                THEN FirstMode(Column(d, j)) ELSE c)
    ELSE d

\* the caller's dataset after FillMissingValuesStrategy.handle(df):
\* df_cleaned = df.copy() is the object written into
FillMissingValuesStrategy_caller(method, d, cow) ==
    Caller(d, DataFrame_copy("df"), FillWritten(method, d, cow))

\* df.loc[mask] along the rows / along the columns: the positions kept, in
\* order, with their labels
TakeRows(d, keep) ==
    [d EXCEPT !.index = [k \in 1..Len(keep) |-> d.index[keep[k]]],
              !.data = [k \in 1..Len(keep) |-> d.data[keep[k]]]]
TakeColumns(d, keep) ==
    [d EXCEPT !.cols = [k \in 1..Len(keep) |-> d.cols[keep[k]]],
              !.dtypes = [k \in 1..Len(keep) |-> d.dtypes[keep[k]]],
              !.data = [i \in 1..NRows(d) |->
                            [k \in 1..Len(keep) |-> d.data[i][keep[k]]]]]

\* the number of non-null cells of row i, of column j
RowCount(d, i) == Cardinality({ j \in 1..NCols(d) : ~IsNull(d.data[i][j]) })
ColCount(d, j) == Cardinality({ i \in 1..NRows(d) : ~IsNull(d.data[i][j]) })

\* dropna's test of one row or column holding count non-null cells out of
\* size. An integer thresh keeps it when count >= thresh. thresh = None is
\* "not given" up to pandas 1.4 (how = "any": kept when no cell is null);
\* from pandas 1.5 on the default is a sentinel, None counts as given, and
\* count >= None is False everywhere.
DropnaKeeps(count, size, thresh, legacy) ==
    IF thresh.k = "num" THEN count >= thresh.n
    ELSE IF legacy THEN count = size
    ELSE FALSE

\* DropMissingValuesStrategy(axis, thresh).handle(df):
\* df.dropna(axis=axis, thresh=thresh)
DropMissingValuesStrategy_handle(axis, thresh, d, legacy) ==
    IF axis = 0
    THEN Return(TakeRows(d, SelectSeq([i \in 1..NRows(d) |-> i], LAMBDA i :
                    DropnaKeeps(RowCount(d, i), NCols(d), thresh, legacy))))
    ELSE IF axis = 1
    THEN Return(TakeColumns(d, SelectSeq([j \in 1..NCols(d) |-> j], LAMBDA j :
                    DropnaKeeps(ColCount(d, j), NRows(d), thresh, legacy))))
    ELSE Raise("ValueError", "No axis")

\* the strategy objects
DropMissingValuesStrategy(axis, thresh) ==
    [kind |-> "drop", axis |-> axis, thresh |-> thresh]
FillMissingValuesStrategy(method, fill_value) ==
    [kind |-> "fill", method |-> method, fill_value |-> fill_value]

\* MissingValueHandlingStrategy.handle on a strategy object, under a pandas
\* build with Copy-on-Write on or off and with the old or new dropna
handle(s, d, cow, legacy) ==
    IF s.kind = "drop"
    THEN DropMissingValuesStrategy_handle(s.axis, s.thresh, d, legacy)
    ELSE FillMissingValuesStrategy_handle(s.method, s.fill_value, d, cow)

(***************************************************************************)
(* Archive ingestion (src/ingest_data.py).                                 *)
(***************************************************************************)
Path(dir, base, ext) == [dir |-> dir, base |-> base, ext |-> ext]

\* the member paths an archive may hold: two top-level CSV files, one
\* top-level file of another type, and a CSV file inside a folder
EntryPaths ==
    { Path("", "a", ".csv"), Path("", "b", ".csv"),
      Path("", "notes", ".txt"), Path("sub", "a", ".csv") }

\* an archive, and the directory tree on disk: member path -> file content;
\* the content of a CSV file is its number of data rows, that of another
\* file is not looked at (0)
Archives ==
    UNION { { a \in [S -> 0..MaxCsvRows] :
                \A p \in S : p.ext # ".csv" => a[p] = 0 } :
            S \in SUBSET EntryPaths }

\* the paths the caller may pass
FilePaths == { Path("", "archive", ".zip"), Path("", "archive", ".csv") }

\* str.endswith on a path or a directory entry name
EndsWith(p, suffix) == p.ext = suffix

\* ZipFile.extractall(dir): every member is written under dir, replacing a
\* file of the same path; files already there are kept
ExtractAll(fs, archive) ==
    [p \in (DOMAIN fs) \cup (DOMAIN archive) |->
        IF p \in DOMAIN archive THEN archive[p] ELSE fs[p]]

\* os.listdir(dir): the names directly under dir, files and folders alike
ListDir(fs) ==
    { Path("", p.base, p.ext) : p \in { q \in DOMAIN fs : q.dir = "" } }
        \cup { Path("", p.dir, "") : p \in { q \in DOMAIN fs : q.dir # "" } }

\* pd.read_csv of a file with n data rows: a one-column numeric dataset
\* with the default RangeIndex
ReadCsv(n) ==
    DataFrame(<<Col("SalePrice")>>, <<"number">>,
              [i \in 1..n |-> i - 1], [i \in 1..n |-> <<Num(i)>>])

\* an ingest that extracts before it looks at the extension
ingest_ExtractFirst(fs, file_path, archive) ==
    IF ~EndsWith(file_path, ".zip")
    THEN <<Raise("ValueError", "not a .zip file"), ExtractAll(fs, archive)>>
    ELSE <<Raise("FileNotFoundError", "no CSV"), ExtractAll(fs, archive)>>

\* ZipDataIngestor.ingest: the pair <<result, directory afterwards>>
ingest(fs, file_path, archive) ==
    IF ~EndsWith(file_path, ".zip")
    THEN <<Raise("ValueError", "not a .zip file"), fs>>
    ELSE LET extracted == ExtractAll(fs, archive)
             extracted_files == ListDir(extracted)
             csv_files == { f \in extracted_files : EndsWith(f, ".csv") }
         IN  IF Cardinality(csv_files) = 0
             THEN <<Raise("FileNotFoundError", "no CSV"), extracted>>
             ELSE IF Cardinality(csv_files) > 1
             THEN <<Raise("ValueError", "multiple CSV"), extracted>>
             ELSE LET f == CHOOSE g \in csv_files : TRUE
                  IN  <<Return(ReadCsv(extracted[f])), extracted>>

Ingest ==
    \E file_path \in FilePaths, archive \in Archives :
        LET r == ingest(extracted_data, file_path, archive)
        IN  /\ call' = [op |-> "ingest", file_path |-> file_path,
                        archive |-> archive]
            /\ out' = r[1]
            /\ extracted_data' = r[2]
            /\ UNCHANGED <<df, strategy, shuffle>>

\* DataIngestorFactory.get_data_ingestor(file_extension)
get_data_ingestor(file_extension) ==
    IF file_extension = ".zip" THEN Return([class |-> "ZipDataIngestor"])
    ELSE Raise("ValueError", "No ingestor available")

\* the methods an ingestor object has: the one that DataIngestor declares
\* and ZipDataIngestor defines
Methods(ingestor) == {"ingest"}

\* data_ingestion_step(file_path): the factory's ingestor for ".zip", then
\* ingestor.ingest_data(file_path); looking up a method the object does not
\* have raises AttributeError before anything is called
data_ingestion_step(fs, file_path, archive) ==
    LET ingestor == get_data_ingestor(".zip")
    IN  IF ingestor.status = "raise" THEN <<ingestor, fs>>
        ELSE IF "ingest_data" \notin Methods(ingestor.value)
        THEN <<Raise("AttributeError", "ingest_data"), fs>>
        ELSE ingest(fs, file_path, archive)

DataIngestionStep ==
    \E file_path \in FilePaths, archive \in Archives :
        LET r == data_ingestion_step(extracted_data, file_path, archive)
        IN  /\ call' = [op |-> "data_ingestion_step", file_path |-> file_path,
                        archive |-> archive]
            /\ out' = r[1]
            /\ extracted_data' = r[2]
            /\ UNCHANGED <<df, strategy, shuffle>>

\* a fresh working directory: nothing has been extracted yet
InitIngest ==
    /\ extracted_data = [p \in {} |-> 0]
    /\ df = NoData
    /\ call = NoCall
    /\ out = Return(NoData)
    /\ strategy = NoStrategy
    /\ shuffle = NoShuffle

NextIngest == Ingest \/ DataIngestionStep

SpecIngest == InitIngest /\ [][NextIngest]_vars

(***************************************************************************)
(* Claims about ingestion.                                                 *)
(***************************************************************************)
\* the CSV members of an archive, wherever they sit in it
CsvEntries(archive) == { p \in DOMAIN archive : p.ext = ".csv" }

IsZipIngest == call.op = "ingest" /\ EndsWith(call.file_path, ".zip")

\* C1: every ingest call given a .zip archive holding exactly one CSV entry
\* succeeds and returns the dataset parsed from that entry (same row count),
\* whatever earlier calls extracted and wherever the entry sits.
C1_SingleCsvSucceeds ==
    (IsZipIngest /\ Cardinality(CsvEntries(call.archive)) = 1) =>
        LET p == CHOOSE q \in CsvEntries(call.archive) : TRUE
        IN  /\ out.status = "ok"
            /\ out.value = ReadCsv(call.archive[p])

\* C2: every ingest call given a .zip archive with no CSV entry raises
\* FileNotFoundError, and one given two or more CSV entries raises the
\* multiple-CSV ValueError; neither returns a dataset.
C2_ZeroOrManyCsvRaises ==
    /\ (IsZipIngest /\ Cardinality(CsvEntries(call.archive)) = 0) =>
            (out.status = "raise" /\ out.exc = "FileNotFoundError")
    /\ (IsZipIngest /\ Cardinality(CsvEntries(call.archive)) > 1) =>
            (out.status = "raise" /\ out.exc = "ValueError"
                /\ out.msg = "multiple CSV")

\* C21: data_ingestion_step(file_path) returns what the zip ingestor's
\* ingest returns for file_path, with the same effect on the extraction
\* directory; in a fresh directory a .zip archive with exactly one CSV,
\* at top level, makes the step complete and return that CSV's dataset.
C21_StepReturnsIngested ==
    [][call'.op = "data_ingestion_step" =>
            /\ <<out', extracted_data'>> =
                    ingest(extracted_data, call'.file_path, call'.archive)
            /\ (/\ DOMAIN extracted_data = {}
                /\ EndsWith(call'.file_path, ".zip")
                /\ Cardinality(CsvEntries(call'.archive)) = 1
                /\ \A p \in CsvEntries(call'.archive) : p.dir = "")
                    => out'.status = "ok"]_vars

\* C16: every ingest call whose path does not end in ".zip" raises the
\* not-a-zip ValueError and leaves the extraction directory exactly as it
\* was: nothing is extracted, whatever the file at that path holds.
C16_NonZipRejectedUntouched ==
    [][(call'.op = "ingest" /\ ~EndsWith(call'.file_path, ".zip")) =>
            /\ out' = Raise("ValueError", "not a .zip file")
            /\ extracted_data' = extracted_data]_vars

\* a non-.zip path holding members was refused after an earlier extraction
C16_Witness ==
    /\ call.op = "ingest"
    /\ ~EndsWith(call.file_path, ".zip")
    /\ DOMAIN call.archive # {}
    /\ DOMAIN extracted_data # {}
    /\ DOMAIN call.archive # DOMAIN extracted_data
    /\ out = Raise("ValueError", "not a .zip file")

(***************************************************************************)
(* Input datasets.                                                         *)
(***************************************************************************)
\* the cells a column of the given dtype may hold
Cells(dtype) ==
    IF dtype = "number"
    THEN {NaN} \cup { Num(i) : i \in 0..MaxVal }
    ELSE {NaN} \cup { Str(c) : c \in 1..MaxCats }

Rows(dtypes) ==
    { r \in [1..Len(dtypes) -> Cells("number") \cup Cells("object")] :
        \A j \in 1..Len(dtypes) : r[j] \in Cells(dtypes[j]) }

\* pd.RangeIndex(n): the row labels 0..n-1
RangeIndex(n) == [i \in 1..n |-> i - 1]

\* every dataset with the given columns and n rows
Tables(cols, dtypes, n) ==
    { DataFrame(cols, dtypes, RangeIndex(n), data) :
        data \in [1..n -> Rows(dtypes)] }

\* a numeric column and a categorical column
MixedTables(n) ==
    Tables(<<Col("price"), Col("zone")>>, <<"number", "object">>, n)

\* the same two columns over few values, for operations applied in sequence
SmallTables(n) ==
    { DataFrame(<<Col("price"), Col("zone")>>, <<"number", "object">>,
                RangeIndex(n), data) :
        data \in [1..n -> { <<p, z>> : p \in {NaN, Num(0), Num(1)},
                                       z \in {NaN, Str(1)} }] }

(***************************************************************************)
(* Missing-value handling: the calls.                                      *)
(***************************************************************************)
FillMethods == {"mean", "median", "mode", "constant", "other"}
\* fill_value: None (the constructor's default) or a number
FillValues == {NoCat, Num(0)}

\* Whether the chained inplace fillna of the "mode" branch reaches df_cleaned
\* depends on the installed pandas (Copy-on-Write is off by default in
\* pandas 2 and always on in pandas 3); the repository pins no version, so
\* the call may meet either.
Fill ==
    \E method \in FillMethods, fill_value \in FillValues, cow \in BOOLEAN :
        /\ call' = [op |-> "fill", method |-> method,
                    fill_value |-> fill_value]
        /\ out' = FillMissingValuesStrategy_handle(method, fill_value, df, cow)
        /\ df' = FillMissingValuesStrategy_caller(method, df, cow)
        /\ UNCHANGED <<extracted_data, strategy, shuffle>>

\* axis: rows (the constructor's default), columns, or not an axis
DropAxes == {0, 1, 2}
\* thresh: None (the constructor's default) or a count
DropThresholds == {NoCat, Num(1), Num(2)}

\* DropMissingValuesStrategy(axis, thresh).handle(df). What thresh = None
\* means depends on the installed pandas, which the repository does not pin.
Drop ==
    \E axis \in DropAxes, thresh \in DropThresholds, legacy \in BOOLEAN :
        /\ call' = [op |-> "drop", axis |-> axis, thresh |-> thresh]
        /\ out' = DropMissingValuesStrategy_handle(axis, thresh, df, legacy)
        /\ UNCHANGED <<extracted_data, df, strategy, shuffle>>

InitMissing ==
    /\ extracted_data = [p \in {} |-> 0]
    /\ \E n \in 0..MaxRows :
            df \in IF n <= MaxFeatRows THEN MixedTables(n) ELSE SmallTables(n)
    /\ call = NoCall
    /\ out = Return(NoData)
    /\ strategy = NoStrategy
    /\ shuffle = NoShuffle

NextMissing == Fill \/ Drop

SpecMissing == InitMissing /\ [][NextMissing]_vars

\* the columns a fill method applies to
FillApplies(method, d, j) ==
    IF method \in {"mean", "median"} THEN d.dtypes[j] = "number" ELSE TRUE

SameShape(a, b) == NRows(a) = NRows(b) /\ NCols(a) = NCols(b)

\* C3: for every dataset and every fill method in {mean, median, mode,
\* constant}, handle returns a dataset of the same shape with no null left
\* in any column the method applies to.
C3_FillLeavesNoNulls ==
    (call.op = "fill" /\ call.method \in {"mean", "median", "mode", "constant"})
        => /\ out.status = "ok"
           /\ SameShape(out.value, df)
           /\ \A j \in 1..NCols(df) : FillApplies(call.method, df, j) =>
                \A i \in 1..NRows(out.value) : ~IsNull(out.value.data[i][j])

\* C19: FillMissingValuesStrategy with method mean or median returns a
\* dataset with the labels and rows of the input in which every cell of a
\* non-numeric column, nulls included, and every non-null cell of a numeric
\* column is the cell of the input: only null cells of numeric columns
\* change.
C19_MeanMedianFrame ==
    (call.op = "fill" /\ call.method \in {"mean", "median"}) =>
        /\ out.status = "ok"
        /\ out.value.cols = df.cols
        /\ out.value.dtypes = df.dtypes
        /\ out.value.index = df.index
        /\ NRows(out.value) = NRows(df)
        /\ \A i \in 1..NRows(df), j \in 1..NCols(df) :
                (df.dtypes[j] # "number" \/ df.data[i][j].k # "nan") =>
                    out.value.data[i][j] = df.data[i][j]

\* a mean or median fill wrote into a numeric column beside a string
\* column that has a null of its own
C19_Witness ==
    /\ call.op = "fill"
    /\ call.method \in {"mean", "median"}
    /\ out.status = "ok"
    /\ out.value # df
    /\ \E i \in 1..NRows(df), j \in 1..NCols(df) :
            df.dtypes[j] = "object" /\ df.data[i][j].k = "nan"
    /\ \E i \in 1..NRows(df), j \in 1..NCols(df) :
            df.dtypes[j] = "number" /\ df.data[i][j].k = "num"

(***************************************************************************)
(* Feature engineering (src/feature_engineering.py).                       *)
(***************************************************************************)
Range(s) == { s[i] : i \in 1..Len(s) }

\* df[features] raises KeyError when a label is not a column
Missing(d, features) ==
    \E k \in 1..Len(features) : ColIndex(d, features[k]) = 0

\* np.log1p of one cell: log(1 + x) for x > -1 (kept symbolic, k = "log1p"),
\* -inf at x = -1 and NaN below it (numpy warns and goes on), NaN for NaN
Log1p(c) ==
    IF IsNull(c) THEN NaN
    ELSE IF c.n + c.d > 0 THEN [c EXCEPT !.k = "log1p"]
    ELSE IF c.n + c.d = 0 THEN [k |-> "ninf", n |-> 0, d |-> 1]
    ELSE NaN

\* LogTransformation(features).apply_transformation(df). np.log1p has no
\* loop for the str/float objects of an object column: TypeError.
LogTransformation_apply(features, d) ==
    IF Missing(d, features) THEN Raise("KeyError", "feature")
    ELSE IF \E k \in 1..Len(features) :
                /\ d.dtypes[ColIndex(d, features[k])] = "object"
                /\ NRows(d) > 0
    THEN Raise("TypeError", "log1p")
    ELSE Return(MapCells(d, LAMBDA i, j, c :
                    IF d.cols[j] \in Range(features) THEN Log1p(c) ELSE c))

\* the ascending sequence of the cells of a set
RECURSIVE Ascending(_)
Ascending(S) ==
    IF S = {} THEN <<>>
    ELSE LET m == CHOOSE x \in S : \A y \in S : Leq(x, y)
         IN  <<m>> \o Ascending(S \ {m})

\* OneHotEncoder.categories_ of one column: the distinct non-null values in
\* ascending order, then NaN if the column has a null
Categories(s) ==
    Ascending({ c \in Range(s) : ~IsNull(c) })
        \o (IF \E i \in 1..Len(s) : IsNull(s[i]) THEN <<NaN>> ELSE <<>>)

\* a scaler or encoder as its constructor leaves it
Unfitted == [fitted |-> FALSE]

\* OneHotEncoder.fit: categories_ is computed anew from the columns given,
\* whatever an earlier fit left on the encoder
OneHotEncoder_fit(encoder, d, features) ==
    [fitted |-> TRUE,
     categories_ |-> [k \in 1..Len(features) |->
                        Categories(Column(d, ColIndex(d, features[k])))]]

\* get_feature_names_out: "<feature>_<category>" for every feature in the
\* order given, every category in categories_ order
RECURSIVE get_feature_names_out(_, _, _)
get_feature_names_out(encoder, features, k) ==
    IF k > Len(features) THEN <<>>
    ELSE LET cats == encoder.categories_[k]
         IN  [c \in 1..Len(cats) |->
                    [feat |-> features[k].feat, cat |-> cats[c]]]
                \o get_feature_names_out(encoder, features, k + 1)

\* the names an encoder fit on d gives
FeatureNames(d, features) ==
    get_feature_names_out(OneHotEncoder_fit(Unfitted, d, features),
                          features, 1)

\* OneHotEncoder.transform (handle_unknown = "error"): a cell that is not
\* among the fitted categories of its column is rejected
UnknownCategory(encoder, d, features) ==
    \E k \in 1..Len(features), i \in 1..NRows(d) :
        d.data[i][ColIndex(d, features[k])] \notin Range(encoder.categories_[k])

\* encoder.fit_transform(...).toarray(): row i of the indicator matrix
Indicator(c, cat) == IF c = cat THEN Num(1) ELSE Num(0)
EncodedRow(d, names, i) ==
    [k \in 1..Len(names) |->
        Indicator(d.data[i][ColIndex(d, Col(names[k].feat))], names[k].cat)]

\* mutant of Kept: the encoded columns are not dropped
Kept_NothingDropped(d, features) == [j \in 1..NCols(d) |-> j]

\* the positions of the columns that df.drop(columns=features) keeps
RECURSIVE KeptFrom(_, _, _)
KeptFrom(d, features, j) ==
    IF j > NCols(d) THEN <<>>
    ELSE (IF d.cols[j] \in Range(features) THEN <<>> ELSE <<j>>)
            \o KeptFrom(d, features, j + 1)
Kept(d, features) == KeptFrom(d, features, 1)

\* mutant of ConcatColumns: the frames are concatenated in the other order
ConcatColumns_Swapped(left, right) ==
    DataFrame(right.cols \o left.cols, right.dtypes \o left.dtypes,
              left.index,
              [i \in 1..NRows(left) |-> right.data[i] \o left.data[i]])

\* pd.concat([left, right], axis=1) of two frames with the same row labels
ConcatColumns(left, right) ==
    DataFrame(left.cols \o right.cols, left.dtypes \o right.dtypes,
              left.index,
              [i \in 1..NRows(left) |-> left.data[i] \o right.data[i]])

\* the strategy objects: the features and the scaler or encoder made by
\* the constructor
LogTransformation(features) == [kind |-> "log", features |-> features]
StandardScaling(features) ==
    [kind |-> "standard_scaling", features |-> features, scaler |-> Unfitted]
MinMaxScaling(features) ==
    [kind |-> "minmax_scaling", features |-> features, scaler |-> Unfitted]
OneHotEncoding(features) ==
    [kind |-> "onehot_encoding", features |-> features, encoder |-> Unfitted]

\* what a call on a strategy object leaves: the result and the object
After(r, s) == [result |-> r, strategy |-> s]

\* OneHotEncoding.apply_transformation(df) on the strategy object s. The
\* encoder's input validation rejects a dataset without rows (ValueError).
OneHotEncoding_call(s, d) ==
    IF Missing(d, s.features) THEN After(Raise("KeyError", "feature"), s)
    ELSE IF NRows(d) = 0 THEN After(Raise("ValueError", "0 sample(s)"), s)
    ELSE LET features == s.features
             encoder == OneHotEncoder_fit(s.encoder, d, features)
             feature_names == get_feature_names_out(encoder, features, 1)
             encoded_df ==
                DataFrame(feature_names,
                          [k \in 1..Len(feature_names) |-> "number"],
                          RangeIndex(NRows(d)),
                          [i \in 1..NRows(d) |->
                                EncodedRow(d, feature_names, i)])
             kept == Kept(d, features)
             dropped ==
                DataFrame([k \in 1..Len(kept) |-> d.cols[kept[k]]],
                          [k \in 1..Len(kept) |-> d.dtypes[kept[k]]],
                          RangeIndex(NRows(d)),
                          [i \in 1..NRows(d) |->
                                [k \in 1..Len(kept) |-> d.data[i][kept[k]]]])
             fit == [s EXCEPT !.encoder = encoder]
         IN  IF UnknownCategory(encoder, d, features)
             THEN After(Raise("ValueError", "unknown categories"), fit)
             ELSE After(Return(ConcatColumns(dropped, encoded_df)), fit)

\* OneHotEncoding(features).apply_transformation(df): a new strategy object
OneHotEncoding_apply(features, d) ==
    OneHotEncoding_call(OneHotEncoding(features), d).result

\* the column of d labelled by the k-th feature
FeatureColumn(d, features, k) == Column(d, ColIndex(d, features[k]))

\* np.nanvar: the population variance (ddof = 0) of the non-null cells, NaN
\* if there is none
PopVariance(s) ==
    LET v == NotNull(s)
        m == Mean(s)
        sq == [i \in 1..Len(v) |-> RatMul(RatSub(v[i], m), RatSub(v[i], m))]
    IN  IF Len(v) = 0 THEN NaN
        ELSE LET t == SumSeq(sq) IN Rat(t.n, t.d * Len(v))

\* sklearn's input validation of a scaler: a dataset without rows and a
\* string cell are rejected (ValueError); df[features] comes first
ScalerInputError(d, features) ==
    IF Missing(d, features) THEN Raise("KeyError", "feature")
    ELSE IF NRows(d) = 0 THEN Raise("ValueError", "0 sample(s)")
    ELSE IF \E k \in 1..Len(features), i \in 1..NRows(d) :
                FeatureColumn(d, features, k)[i].k = "str"
    THEN Raise("ValueError", "could not convert string to float")
    ELSE Return(NoData)

\* df_transformed[features] = X: the feature columns take the columns of
\* the array X (rows of cells, one per feature) and become numeric
SetColumns(d, features, X) ==
    LET at(j) == CHOOSE k \in 1..Len(features) : features[k] = d.cols[j]
    IN  [d EXCEPT
            !.dtypes = [j \in 1..NCols(d) |->
                IF d.cols[j] \in Range(features) THEN "number"
                ELSE d.dtypes[j]],
            !.data = [i \in 1..NRows(d) |-> [j \in 1..NCols(d) |->
                IF d.cols[j] \in Range(features) THEN X[i][at(j)]
                ELSE d.data[i][j]]]]

\* mutant of StandardScaler_fit: a scaler that was fit before keeps its
\* statistics
StandardScaler_fit_Once(scaler, d, features) ==
    IF scaler.fitted THEN scaler
    ELSE [fitted |-> TRUE,
          mean_ |-> [k \in 1..Len(features) |->
                        Mean(FeatureColumn(d, features, k))],
          var_ |-> [k \in 1..Len(features) |->
                        PopVariance(FeatureColumn(d, features, k))]]

\* StandardScaler.fit: resets the scaler, then takes the mean and the
\* variance of every column, nulls disregarded
StandardScaler_fit(scaler, d, features) ==
    [fitted |-> TRUE,
     mean_ |-> [k \in 1..Len(features) |->
                    Mean(FeatureColumn(d, features, k))],
     var_ |-> [k \in 1..Len(features) |->
                    PopVariance(FeatureColumn(d, features, k))]]

Sign(x) == IF x < 0 THEN -1 ELSE IF x > 0 THEN 1 ELSE 0

\* (x - mean) / scale with scale = sqrt(var), or 1 for a zero variance. The
\* quotient is kept as the signed square root of a rational: k = "sqrt" is
\* sign(n) * sqrt(|n| / d).
StandardScaled(x, mean, var) ==
    IF IsNull(x) \/ IsNull(mean) THEN NaN
    ELSE LET dev == RatSub(x, mean)
             q == IF var.n = 0 THEN RatMul(dev, dev)
                  ELSE Rat(dev.n * dev.n * var.d, dev.d * dev.d * var.n)
         IN  [k |-> "sqrt", n |-> Sign(dev.n) * q.n, d |-> q.d]

\* StandardScaler.transform
StandardScaler_transform(scaler, d, features) ==
    [i \in 1..NRows(d) |-> [k \in 1..Len(features) |->
        StandardScaled(FeatureColumn(d, features, k)[i],
                       scaler.mean_[k], scaler.var_[k])]]

\* StandardScaling.apply_transformation(df) on the strategy object s
StandardScaling_call(s, d) ==
    LET invalid == ScalerInputError(d, s.features)
        scaler == StandardScaler_fit(s.scaler, d, s.features)
    IN  IF invalid.status = "raise" THEN After(invalid, s)
        ELSE After(Return(SetColumns(d, s.features,
                        StandardScaler_transform(scaler, d, s.features))),
                   [s EXCEPT !.scaler = scaler])

\* MinMaxScaler.fit: resets the scaler, then takes the minimum and the
\* maximum of every column, nulls disregarded (NaN if there is no value)
MinMaxScaler_fit(scaler, d, features) ==
    [fitted |-> TRUE,
     data_min_ |-> [k \in 1..Len(features) |->
            LET v == NotNull(FeatureColumn(d, features, k))
            IN  IF v = <<>> THEN NaN ELSE Kth(v, 1)],
     data_max_ |-> [k \in 1..Len(features) |->
            LET v == NotNull(FeatureColumn(d, features, k))
            IN  IF v = <<>> THEN NaN ELSE Kth(v, Len(v))]]

\* (x - min) * scale with scale = 1 / (max - min), or 1 for a zero range
MinMaxScaled(x, lo, hi) ==
    IF IsNull(x) \/ IsNull(lo) THEN NaN
    ELSE LET dev == RatSub(x, lo)
             range == RatSub(hi, lo)
         IN  IF range.n = 0 THEN dev
             ELSE Rat(dev.n * range.d, dev.d * range.n)

\* MinMaxScaler.transform
MinMaxScaler_transform(scaler, d, features) ==
    [i \in 1..NRows(d) |-> [k \in 1..Len(features) |->
        MinMaxScaled(FeatureColumn(d, features, k)[i],
                     scaler.data_min_[k], scaler.data_max_[k])]]

\* MinMaxScaling.apply_transformation(df) on the strategy object s
MinMaxScaling_call(s, d) ==
    LET invalid == ScalerInputError(d, s.features)
        scaler == MinMaxScaler_fit(s.scaler, d, s.features)
    IN  IF invalid.status = "raise" THEN After(invalid, s)
        ELSE After(Return(SetColumns(d, s.features,
                        MinMaxScaler_transform(scaler, d, s.features))),
                   [s EXCEPT !.scaler = scaler])

\* FeatureEngineeringStrategy.apply_transformation on a strategy object
apply_transformation(s, d) ==
    IF s.kind = "log" THEN After(LogTransformation_apply(s.features, d), s)
    ELSE IF s.kind = "standard_scaling" THEN StandardScaling_call(s, d)
    ELSE IF s.kind = "minmax_scaling" THEN MinMaxScaling_call(s, d)
    ELSE OneHotEncoding_call(s, d)

\* what LogTransformation.apply_transformation writes in place into
\* df_transformed: one item assignment per feature, until a feature that
\* is absent or cannot be transformed stops the loop
LogWritten(features, d) ==
    LET fails(k) ==
            \/ ColIndex(d, features[k]) = 0
            \/ /\ d.dtypes[ColIndex(d, features[k])] = "object"
               /\ NRows(d) > 0
        done == { features[k] : k \in { m \in 1..Len(features) :
                                    \A b \in 1..m : ~fails(b) } }
    IN  MapCells(d, LAMBDA i, j, c :
            IF d.cols[j] \in done THEN Log1p(c) ELSE c)

\* what the scaling strategies write in place into df_transformed: the one
\* item assignment of the scaled columns, if fit_transform returned
ScaledWritten(s, d) ==
    LET r == apply_transformation(s, d).result
    IN  IF r.status = "ok" THEN r.value ELSE d

\* the caller's dataset after apply_transformation(df): df_transformed =
\* df.copy() is the object written into; OneHotEncoding rebinds the name
\* (drop, concat) and writes nothing in place
apply_transformation_caller(s, d) ==
    Caller(d, DataFrame_copy("df"),
           IF s.kind = "log" THEN LogWritten(s.features, d)
           ELSE IF s.kind \in {"standard_scaling", "minmax_scaling"}
           THEN ScaledWritten(s, d)
           ELSE d)

\* the feature lists a strategy may be constructed with
FeatureLists ==
    { <<Col("price")>>, <<Col("zone")>>, <<Col("zone"), Col("price")>>,
      <<Col("absent")>> }

Log ==
    \E features \in FeatureLists :
        /\ call' = [op |-> "log", features |-> features]
        /\ out' = LogTransformation_apply(features, df)
        /\ df' = apply_transformation_caller(LogTransformation(features), df)
        /\ UNCHANGED <<extracted_data, strategy, shuffle>>

OneHot ==
    \E features \in FeatureLists :
        /\ call' = [op |-> "onehot", features |-> features]
        /\ out' = OneHotEncoding_apply(features, df)
        /\ df' = apply_transformation_caller(OneHotEncoding(features), df)
        /\ UNCHANGED <<extracted_data, strategy, shuffle>>

\* StandardScaling(features).apply_transformation(df), a new strategy object
StandardScale ==
    \E features \in FeatureLists :
        /\ call' = [op |-> "standard_scaling", features |-> features]
        /\ out' = StandardScaling_call(StandardScaling(features), df).result
        /\ df' = apply_transformation_caller(StandardScaling(features), df)
        /\ UNCHANGED <<extracted_data, strategy, shuffle>>

\* MinMaxScaling(features).apply_transformation(df), a new strategy object
MinMaxScale ==
    \E features \in FeatureLists :
        /\ call' = [op |-> "minmax_scaling", features |-> features]
        /\ out' = MinMaxScaling_call(MinMaxScaling(features), df).result
        /\ df' = apply_transformation_caller(MinMaxScaling(features), df)
        /\ UNCHANGED <<extracted_data, strategy, shuffle>>

\* the row labels of an input: 0..n-1 as read from a file, or with gaps as
\* an earlier row filter (dropna, outlier removal) leaves them
Indexes(n) == { RangeIndex(n), [i \in 1..n |-> 2 * i] }

\* the rows of a feature-engineering input: price may be negative
FeatureRows ==
    { <<p, z>> : p \in Cells("number") \cup {Num(-1), Num(-2)},
                 z \in Cells("object") }

FeatureTables(n) ==
    { DataFrame(<<Col("price"), Col("zone")>>, <<"number", "object">>,
                ix, data) :
        ix \in Indexes(n), data \in [1..n -> FeatureRows] }

InitFeature ==
    /\ extracted_data = [p \in {} |-> 0]
    /\ \E n \in 0..MaxFeatRows : df \in FeatureTables(n)
    /\ call = NoCall
    /\ out = Return(NoData)
    /\ strategy = NoStrategy
    /\ shuffle = NoShuffle

NextFeature == Log \/ OneHot

SpecFeature == InitFeature /\ [][NextFeature]_vars

(***************************************************************************)
(* Claims about feature engineering.                                       *)
(***************************************************************************)
IsGenerated(c) == c.cat # NoCat

\* the labels of d, in order, that are not among the encoded features
Remaining(d, features) ==
    SelectSeq(d.cols, LAMBDA c : c \notin Range(features))

\* the generated columns of a result, as positions
GeneratedOf(r, f) ==
    { j \in 1..NCols(r) : IsGenerated(r.cols[j]) /\ r.cols[j].feat = f.feat }

\* one-hot encoding of the single column c, which is present and has no null
OneHotOneColumn ==
    /\ call.op = "onehot"
    /\ Len(call.features) = 1
    /\ ColIndex(df, call.features[1]) # 0
    /\ \A i \in 1..NRows(df) :
            ~IsNull(df.data[i][ColIndex(df, call.features[1])])

\* k distinct categories, k new indicator columns summing to 1 in every
\* row, and the original column gone
OneHotShape ==
    LET c == call.features[1]
        k == Cardinality(Range(Column(df, ColIndex(df, c))))
        r == out.value
    IN  /\ out.status = "ok"
        /\ ColIndex(r, c) = 0
        /\ Cardinality(GeneratedOf(r, c)) = k
        /\ NCols(r) = NCols(df) - 1 + k
        /\ NRows(r) = NRows(df)
        /\ \A i \in 1..NRows(r) :
            /\ \A j \in GeneratedOf(r, c) : r.data[i][j] \in {Num(0), Num(1)}
            /\ Cardinality({ j \in GeneratedOf(r, c) : r.data[i][j] = Num(1) })
                    = 1

C5_GeneratedFirst ==
    (call.op = "onehot" /\ out.status = "ok") =>
        LET r == out.value
            rest == Remaining(df, call.features)
            g == NCols(r) - Len(rest)
        IN  /\ g >= 0
            /\ \A j \in 1..g : IsGenerated(r.cols[j])
            /\ SubSeq(r.cols, g + 1, NCols(r)) = rest
            /\ r.index = RangeIndex(NRows(df))

\* C5 (amended): the remaining original columns come first, in their
\* original order, the generated category columns follow them, and the rows
\* are labelled 0..n-1.
C5_RemainingFirst ==
    (call.op = "onehot" /\ out.status = "ok") =>
        LET r == out.value
            rest == Remaining(df, call.features)
        IN  /\ Len(rest) <= NCols(r)
            /\ SubSeq(r.cols, 1, Len(rest)) = rest
            /\ \A j \in (Len(rest) + 1)..NCols(r) : IsGenerated(r.cols[j])
            /\ r.index = RangeIndex(NRows(df))

C5_Witness ==
    /\ call.op = "onehot" /\ out.status = "ok"
    /\ Remaining(df, call.features) # <<>>
    /\ df.index # RangeIndex(NRows(df))
    /\ \E j \in 1..NCols(out.value) : IsGenerated(out.value.cols[j])

\* C6: a log transformation of a column holding a value outside the
\* logarithm's domain (x <= -1) fails: the error reaches the caller and no
\* dataset is returned.
C6_LogDomainErrorRaised ==
    (/\ call.op = "log"
     /\ ~Missing(df, call.features)
     /\ \E k \in 1..Len(call.features), i \in 1..NRows(df) :
            LET c == df.data[i][ColIndex(df, call.features[k])]
            IN  c.k = "num" /\ c.n + c.d <= 0)
        => out.status = "raise"

(***************************************************************************)
(* Outlier detection and handling (src/outlier_detection.py).              *)
(***************************************************************************)
Bool(b) == [k |-> "bool", n |-> IF b THEN 1 ELSE 0, d |-> 1]

HasObjectColumn(d) == \E j \in 1..NCols(d) : d.dtypes[j] = "object"

\* a boolean frame with the labels of d, computed column by column:
\* flags(s) is the sequence of flags of the column s
Mask(d, flags(_)) ==
    LET byColumn == [j \in 1..NCols(d) |-> flags(Column(d, j))]
    IN  DataFrame(d.cols, [j \in 1..NCols(d) |-> "bool"], d.index,
                  [i \in 1..NRows(d) |->
                        [j \in 1..NCols(d) |-> Bool(byColumn[j][i])]])

\* Series.std() squared: the sample variance (ddof = 1) of the non-null
\* cells, NaN when there are fewer than two
Variance(s) ==
    LET v == NotNull(s)
        m == Mean(s)
        sq == [i \in 1..Len(v) |-> RatMul(RatSub(v[i], m), RatSub(v[i], m))]
    IN  IF Len(v) < 2 THEN NaN
        ELSE LET t == SumSeq(sq) IN Rat(t.n, t.d * (Len(v) - 1))

\* mutant of ZScoreAbove: abs(z) >= threshold
ZScoreAbove_Inclusive(x, m, var, threshold) ==
    IF IsNull(x) \/ IsNull(var) \/ var.n = 0 THEN FALSE
    ELSE IF threshold < 0 THEN TRUE
    ELSE LET dev == RatSub(x, m)
         IN  Leq(RatMul(Num(threshold * threshold), var), RatMul(dev, dev))

\* abs((x - mean) / std) > threshold for one cell x of a column with mean m
\* and sample variance var. The quotient
\* is NaN for a null x, an undefined std, or 0/0 when std = 0, and NaN > t is
\* False; otherwise |x - mean| > t * std is compared through the squares.
ZScoreAbove(x, m, var, threshold) ==
    IF IsNull(x) \/ IsNull(var) \/ var.n = 0 THEN FALSE
    ELSE IF threshold < 0 THEN TRUE
    ELSE LET dev == RatSub(x, m)
         IN  Less(RatMul(Num(threshold * threshold), var), RatMul(dev, dev))

\* ZScoreOutlierDetection(threshold).detect_outliers(df); the mean of an
\* object column cannot be taken (TypeError)
ZScoreOutlierDetection_detect(threshold, d) ==
    IF HasObjectColumn(d) THEN Raise("TypeError", "mean")
    ELSE Return(Mask(d, LAMBDA s :
                    LET m == Mean(s)
                        var == Variance(s)
                    IN  [i \in 1..Len(s) |->
                            ZScoreAbove(s[i], m, var, threshold)]))

\* Series.quantile(a/b), linear interpolation between the two nearest order
\* statistics of the non-null cells; NaN when there is none
Quantile(s, a, b) ==
    LET v == NotNull(s)
        pos == a * (Len(v) - 1)
        lo == pos \div b + 1
        fr == pos % b
    IN  IF Len(v) = 0 THEN NaN
        ELSE IF fr = 0 THEN Kth(v, lo)
        ELSE RatAdd(Kth(v, lo),
                    RatMul(Rat(fr, b), RatSub(Kth(v, lo + 1), Kth(v, lo))))

\* mutant of OutsideIQR: (x <= Q1 - 1.5 * IQR) | (x >= Q3 + 1.5 * IQR)
OutsideIQR_Inclusive(x, Q1, Q3) ==
    IF IsNull(x) \/ IsNull(Q1) THEN FALSE
    ELSE LET IQR == RatSub(Q3, Q1)
             lower == RatSub(Q1, RatMul(Rat(3, 2), IQR))
             upper == RatAdd(Q3, RatMul(Rat(3, 2), IQR))
         IN  Leq(x, lower) \/ Leq(upper, x)

\* (x < Q1 - 1.5 * IQR) | (x > Q3 + 1.5 * IQR); comparisons with NaN are False
OutsideIQR(x, Q1, Q3) ==
    IF IsNull(x) \/ IsNull(Q1) THEN FALSE
    ELSE LET IQR == RatSub(Q3, Q1)
             lower == RatSub(Q1, RatMul(Rat(3, 2), IQR))
             upper == RatAdd(Q3, RatMul(Rat(3, 2), IQR))
         IN  Less(x, lower) \/ Less(upper, x)

\* IQRBasedOutlierDetection().detect_outliers(df)
IQRBasedOutlierDetection_detect(d) ==
    IF HasObjectColumn(d) THEN Raise("TypeError", "quantile")
    ELSE Return(Mask(d, LAMBDA s :
                    LET Q1 == Quantile(s, 1, 4)
                        Q3 == Quantile(s, 3, 4)
                    IN  [i \in 1..Len(s) |-> OutsideIQR(s[i], Q1, Q3)]))

\* the strategy objects
ZScoreOutlierDetection(args) ==
    [kind |-> "zscore",
     threshold |-> IF args = <<>> THEN DefaultThreshold ELSE args[1]]
IQRBasedOutlierDetection == [kind |-> "iqr", threshold |-> 0]

\* OutlierDetector.detect_outliers: delegates to the held strategy
detect_outliers(s, d) ==
    IF s.kind = "zscore" THEN ZScoreOutlierDetection_detect(s.threshold, d)
    ELSE IQRBasedOutlierDetection_detect(d)

\* df[(~outliers).all(axis=1)]: the rows with no True in the mask, with
\* their labels, in order
\* mutant of RowUnflagged: (~outliers).any(axis=1)
RowUnflagged_Any(mask, i) ==
    \E j \in 1..NCols(mask) : mask.data[i][j] = Bool(FALSE)

\* (~outliers).all(axis=1) at row i
RowUnflagged(mask, i) ==
    \A j \in 1..NCols(mask) : mask.data[i][j] = Bool(FALSE)

RECURSIVE UnflaggedFrom(_, _)
UnflaggedFrom(mask, i) ==
    IF i > NRows(mask) THEN <<>>
    ELSE (IF RowUnflagged(mask, i) THEN <<i>> ELSE <<>>)
            \o UnflaggedFrom(mask, i + 1)
RemoveRows(d, mask) ==
    LET keep == UnflaggedFrom(mask, 1)
    IN  [d EXCEPT !.index = [k \in 1..Len(keep) |-> d.index[keep[k]]],
                  !.data = [k \in 1..Len(keep) |-> d.data[keep[k]]]]

\* a capping that drops the flagged rows instead
CapColumns_Removing(d, mask) == RemoveRows(d, mask)

\* df.clip(lower=df.quantile(0.01), upper=df.quantile(0.99), axis=1): every
\* column against its own bounds; a NaN bound does not clip, NaN stays NaN
Clip(x, lower, upper) ==
    IF IsNull(x) THEN x
    ELSE LET y == IF ~IsNull(lower) /\ Less(x, lower) THEN lower ELSE x
         IN  IF ~IsNull(upper) /\ Less(upper, y) THEN upper ELSE y
\* mutant of CapColumns: only the cells the mask flags are clipped
CapColumns_Masked(d, mask) ==
    LET lower == [j \in 1..NCols(d) |-> Quantile(Column(d, j), 1, 100)]
        upper == [j \in 1..NCols(d) |-> Quantile(Column(d, j), 99, 100)]
    IN  MapCells(d, LAMBDA i, j, c :
            IF mask.data[i][j] = Bool(TRUE) THEN Clip(c, lower[j], upper[j])
            ELSE c)

CapColumns(d, mask) ==
    LET lower == [j \in 1..NCols(d) |-> Quantile(Column(d, j), 1, 100)]
        upper == [j \in 1..NCols(d) |-> Quantile(Column(d, j), 99, 100)]
    IN  MapCells(d, LAMBDA i, j, c : Clip(c, lower[j], upper[j]))

\* OutlierDetector.handle_outliers(df, method): detection runs first,
\* whatever the method
handle_outliers(s, d, method) ==
    LET outliers == detect_outliers(s, d)
    IN  IF outliers.status = "raise" THEN outliers
        ELSE IF method = "remove" THEN Return(RemoveRows(d, outliers.value))
        ELSE IF method = "cap" THEN Return(CapColumns(d, outliers.value))
        ELSE Raise("ValueError", "Invalid method")

ThresholdArgs == {<<>>} \cup { <<t>> : t \in 0..MaxThreshold }
OutlierStrategies ==
    { ZScoreOutlierDetection(a) : a \in ThresholdArgs }
        \cup {IQRBasedOutlierDetection}
HandleMethods == {"remove", "cap", "drop"}

\* OutlierDetector.set_strategy
SetOutlierStrategy ==
    \E s \in OutlierStrategies :
        /\ strategy' = s
        /\ call' = [op |-> "set_strategy"]
        /\ out' = Return(NoData)
        /\ UNCHANGED <<extracted_data, df, shuffle>>

DetectOutliers ==
    /\ call' = [op |-> "detect_outliers"]
    /\ out' = detect_outliers(strategy, df)
    /\ UNCHANGED <<extracted_data, df, strategy, shuffle>>

HandleOutliers ==
    \E method \in HandleMethods :
        /\ call' = [op |-> "handle_outliers", method |-> method]
        /\ out' = handle_outliers(strategy, df, method)
        /\ UNCHANGED <<extracted_data, df, strategy, shuffle>>

\* outlier-detection inputs: one numeric column with nulls, two numeric
\* columns without, and a frame with a categorical column
PriceTables(n) ==
    { DataFrame(<<Col("price")>>, <<"number">>, RangeIndex(n), data) :
        data \in [1..n -> { <<p>> : p \in {NaN} \cup
                                { Num(i) : i \in 0..(MaxVal + 1) } }] }

PriceAreaTables(n) ==
    { DataFrame(<<Col("price"), Col("area")>>, <<"number", "number">>,
                RangeIndex(n), data) :
        data \in [1..n -> { <<p, a>> : p \in {Num(0), Num(1)},
                                       a \in {Num(0), Num(1)} }] }

\* longer price columns without nulls (the interquartile rule flags nothing
\* among fewer than four values)
LongPriceTables(n) ==
    { DataFrame(<<Col("price")>>, <<"number">>, RangeIndex(n), data) :
        data \in [1..n -> { <<Num(p)>> :
                        p \in 0..(IF n = MaxRows + 1 THEN 2 ELSE 1) }] }

OutlierTables(n) ==
    IF n > MaxRows THEN LongPriceTables(n)
    ELSE PriceTables(n) \cup PriceAreaTables(n)
            \cup (IF n <= 1 THEN MixedTables(n) ELSE {})

\* OutlierDetector(strategy) constructed, a dataset at hand
InitOutlier ==
    /\ extracted_data = [p \in {} |-> 0]
    /\ \E n \in 0..(MaxRows + 2) : df \in OutlierTables(n)
    /\ call = NoCall
    /\ out = Return(NoData)
    /\ strategy \in OutlierStrategies
    /\ shuffle = NoShuffle

NextOutlier == SetOutlierStrategy \/ DetectOutliers \/ HandleOutliers

SpecOutlier == InitOutlier /\ [][NextOutlier]_vars

(***************************************************************************)
(* Claims about outlier detection and handling.                            *)
(***************************************************************************)
\* the mask the held strategy computes for the caller's dataset
ActiveMask == detect_outliers(strategy, df).value

\* the rows of df that the active mask flags in no column
UnflaggedRows ==
    { i \in 1..NRows(df) :
        \A j \in 1..NCols(df) : ActiveMask.data[i][j] = Bool(FALSE) }

\* the k-th unflagged row, counting from the top
NthUnflagged(k) ==
    CHOOSE i \in UnflaggedRows :
        Cardinality({ h \in UnflaggedRows : h <= i }) = k

IsRemove ==
    /\ call.op = "handle_outliers" /\ call.method = "remove"
    /\ ~HasObjectColumn(df)

\* C8: handle_outliers(D, "remove") returns exactly the rows of D that the
\* active strategy's mask flags in no column, in their original order, with
\* their labels and all columns.
C8_RemoveDropsFlaggedRows ==
    IsRemove =>
        /\ out.status = "ok"
        /\ out.value.cols = df.cols
        /\ NRows(out.value) = Cardinality(UnflaggedRows)
        /\ Len(out.value.index) = Cardinality(UnflaggedRows)
        /\ \A k \in 1..NRows(out.value) :
            /\ out.value.data[k] = df.data[NthUnflagged(k)]
            /\ out.value.index[k] = df.index[NthUnflagged(k)]

\* a row flagged in one column only is dropped, another row is kept
C8_Witness ==
    /\ IsRemove /\ out.status = "ok"
    /\ NCols(df) = 2
    /\ 0 < NRows(out.value) /\ NRows(out.value) < NRows(df)
    /\ \E i \in 1..NRows(df) :
            /\ ActiveMask.data[i][1] = Bool(TRUE)
            /\ ActiveMask.data[i][2] = Bool(FALSE)

IsCap ==
    /\ call.op = "handle_outliers" /\ call.method = "cap"
    /\ ~HasObjectColumn(df)

\* The non-null values of column j of df, which are integers, and 100 times
\* its 1st and 99th percentile (fewer than 101 values: the percentiles lie
\* between the two smallest and between the two largest values).
IntValues(j) ==
    LET v == NotNull(Column(df, j)) IN [i \in 1..Len(v) |-> v[i].n]
Smallest(v, k) ==
    CHOOSE x \in Range(v) :
        /\ Cardinality({ i \in 1..Len(v) : v[i] < x }) < k
        /\ k <= Cardinality({ i \in 1..Len(v) : v[i] <= x })
Pct1Times100(v) ==
    IF Len(v) = 1 THEN 100 * v[1]
    ELSE 100 * Smallest(v, 1)
            + (Len(v) - 1) * (Smallest(v, 2) - Smallest(v, 1))
Pct99Times100(v) ==
    IF Len(v) = 1 THEN 100 * v[1]
    ELSE 100 * Smallest(v, Len(v))
            - (Len(v) - 1) * (Smallest(v, Len(v)) - Smallest(v, Len(v) - 1))
Max(a, b) == IF a > b THEN a ELSE b
Min(a, b) == IF a < b THEN a ELSE b

\* C9: handle_outliers(D, "cap") returns D with every column clipped to its
\* own 1st and 99th percentile, the rows and labels unchanged, and the
\* result is the same for every strategy and threshold the detector may hold.
C9_CapClipsEveryColumn ==
    IsCap =>
        /\ out.status = "ok"
        /\ out.value.cols = df.cols
        /\ out.value.index = df.index
        /\ NRows(out.value) = NRows(df)
        /\ \A i \in 1..NRows(df), j \in 1..NCols(df) :
            LET x == df.data[i][j]
                r == out.value.data[i][j]
                v == IntValues(j)
            IN  IF IsNull(x) THEN IsNull(r)
                ELSE /\ r.k = "num"
                     /\ 100 * r.n = r.d * Min(Max(100 * x.n, Pct1Times100(v)),
                                              Pct99Times100(v))
        /\ \A s \in OutlierStrategies : handle_outliers(s, df, "cap") = out

\* a cell is clipped although the held strategy flags nothing
C9_Witness ==
    /\ IsCap /\ out.status = "ok"
    /\ UnflaggedRows = 1..NRows(df)
    /\ \E i \in 1..NRows(df), j \in 1..NCols(df) :
            out.value.data[i][j] # df.data[i][j]

IsZScoreDetect ==
    /\ call.op = "detect_outliers" /\ strategy.kind = "zscore"
    /\ ~HasObjectColumn(df)

\* For the integer column v: with n values of sum S, D(x) = n * x - S and
\* Q the sum of the D(v[i])^2, the sample z-score of x is
\* D(x) * sqrt(n - 1) / sqrt(Q).
RECURSIVE IntSum(_)
IntSum(v) == IF v = <<>> THEN 0 ELSE Head(v) + IntSum(Tail(v))
Dev(v, x) == Len(v) * x - IntSum(v)
SumSqDev(v) == IntSum([i \in 1..Len(v) |-> Dev(v, v[i]) * Dev(v, v[i])])
ZDefined(v) == Len(v) >= 2 /\ SumSqDev(v) > 0
\* abs(z) > t, abs(z) = t
AbsZAbove(v, x, t) ==
    ZDefined(v) /\ (t < 0 \/ Dev(v, x) * Dev(v, x) * (Len(v) - 1)
                                > t * t * SumSqDev(v))
AbsZEquals(v, x, t) ==
    ZDefined(v) /\ t >= 0
        /\ Dev(v, x) * Dev(v, x) * (Len(v) - 1) = t * t * SumSqDev(v)

\* C10: ZScoreOutlierDetection(threshold).detect_outliers(D) returns a mask
\* with the shape and labels of D that is True exactly where
\* abs((x - mean) / std) > threshold; the threshold is 3 when none is given,
\* and a value whose z-score equals the threshold is not flagged.
C10_ZScoreMask ==
    /\ ZScoreOutlierDetection(<<>>).threshold = 3
    /\ IsZScoreDetect =>
        /\ out.status = "ok"
        /\ out.value.cols = df.cols
        /\ out.value.index = df.index
        /\ NRows(out.value) = NRows(df)
        /\ \A i \in 1..NRows(df), j \in 1..NCols(df) :
            LET x == df.data[i][j]
            IN  out.value.data[i][j] =
                    Bool(~IsNull(x)
                         /\ AbsZAbove(IntValues(j), x.n, strategy.threshold))

\* one value sits exactly on the threshold and is not flagged while another
\* value of the same dataset is flagged
C10_Witness ==
    /\ IsZScoreDetect /\ out.status = "ok"
    /\ \E i \in 1..NRows(df), j \in 1..NCols(df) :
            /\ ~IsNull(df.data[i][j])
            /\ AbsZEquals(IntValues(j), df.data[i][j].n, strategy.threshold)
            /\ out.value.data[i][j] = Bool(FALSE)
    /\ \E i \in 1..NRows(df), j \in 1..NCols(df) :
            out.value.data[i][j] = Bool(TRUE)

IsIQRDetect ==
    /\ call.op = "detect_outliers" /\ strategy.kind = "iqr"
    /\ ~HasObjectColumn(df)

\* 4 times the quartile a/4 (a = 1, 3) of the non-empty integer column v:
\* it lies a * (n - 1) / 4 positions above the smallest value
Quartile4(v, a) ==
    LET pos == a * (Len(v) - 1)
        lo == pos \div 4 + 1
        fr == pos % 4
    IN  IF fr = 0 THEN 4 * Smallest(v, lo)
        ELSE 4 * Smallest(v, lo) + fr * (Smallest(v, lo + 1) - Smallest(v, lo))
\* 8 times the fences Q1 - 1.5 * IQR and Q3 + 1.5 * IQR
LowerFence8(v) == 5 * Quartile4(v, 1) - 3 * Quartile4(v, 3)
UpperFence8(v) == 5 * Quartile4(v, 3) - 3 * Quartile4(v, 1)
OutsideFences(v, x) ==
    Len(v) > 0 /\ (8 * x < LowerFence8(v) \/ 8 * x > UpperFence8(v))
OnFence(v, x) ==
    Len(v) > 0 /\ (8 * x = LowerFence8(v) \/ 8 * x = UpperFence8(v))

\* C11: IQRBasedOutlierDetection.detect_outliers(D) returns a mask with the
\* shape and labels of D that is True exactly where the value lies outside
\* [Q1 - 1.5 * IQR, Q3 + 1.5 * IQR] of its own column; a value on either
\* bound is not flagged.
C11_IQRMask ==
    IsIQRDetect =>
        /\ out.status = "ok"
        /\ out.value.cols = df.cols
        /\ out.value.index = df.index
        /\ NRows(out.value) = NRows(df)
        /\ \A i \in 1..NRows(df) : Len(out.value.data[i]) = NCols(df)
        /\ \A i \in 1..NRows(df), j \in 1..NCols(df) :
            LET x == df.data[i][j]
            IN  out.value.data[i][j] =
                    Bool(~IsNull(x) /\ OutsideFences(IntValues(j), x.n))

\* one value sits on a bound and is not flagged while another value of the
\* same column is flagged
C11_Witness ==
    /\ IsIQRDetect /\ out.status = "ok"
    /\ \E i \in 1..NRows(df), j \in 1..NCols(df) :
            /\ ~IsNull(df.data[i][j])
            /\ OnFence(IntValues(j), df.data[i][j].n)
            /\ out.value.data[i][j] = Bool(FALSE)
    /\ \E i \in 1..NRows(df), j \in 1..NCols(df) :
            out.value.data[i][j] = Bool(TRUE)

(***************************************************************************)
(* Train/test splitting (src/data_splitter.py).                            *)
(***************************************************************************)
\* test_size = 0.2, as the fraction 1/5
DefaultTestSize == Rat(1, 5)

RowPermutations(n) ==
    { f \in [1..n -> 1..n] : \A a, b \in 1..n : f[a] = f[b] => a = b }

\* X.iloc[positions]: the rows at the given positions, with their labels
ILoc(d, positions) ==
    [d EXCEPT !.index = [k \in 1..Len(positions) |-> d.index[positions[k]]],
              !.data = [k \in 1..Len(positions) |-> d.data[positions[k]]]]

\* the columns of d at the given positions
Columns(d, js) ==
    DataFrame([k \in 1..Len(js) |-> d.cols[js[k]]],
              [k \in 1..Len(js) |-> d.dtypes[js[k]]],
              d.index,
              [i \in 1..NRows(d) |-> [k \in 1..Len(js) |-> d.data[i][js[k]]]])

\* mutant of TrainPositions: the train rows start one position early
TrainPositions_OffByOne(perm, n_test, n_train) ==
    SubSeq(perm, n_test, n_test + n_train)

\* the positions of the train rows in the permutation: those after the
\* first n_test
TrainPositions(perm, n_test, n_train) ==
    SubSeq(perm, n_test + 1, n_test + n_train)

\* sklearn's train_test_split(X, y, test_size, random_state) for a float
\* test_size: n_test = ceil(test_size * n), n_train = n - n_test; an empty
\* train set is refused (ValueError); the first n_test rows of the seed's
\* permutation are the test set, the rest the train set
train_test_split(X, y, test_size, perm) ==
    LET n == NRows(X)
        n_test == (test_size.n * n + test_size.d - 1) \div test_size.d
        n_train == n - n_test
        test == SubSeq(perm, 1, n_test)
        train == TrainPositions(perm, n_test, n_train)
    IN  IF ~(Less(Num(0), test_size) /\ Less(test_size, Num(1)))
        THEN Raise("ValueError", "test_size")
        ELSE IF n_train = 0
        THEN Raise("ValueError", "the resulting train set will be empty")
        ELSE Return([X_train |-> ILoc(X, train), X_test |-> ILoc(X, test),
                     y_train |-> ILoc(y, train), y_test |-> ILoc(y, test)])

\* random_state=None, written as a number no seed can be (numpy takes
\* seeds from 0 to 2^32 - 1)
None_ == -1

\* a generator that is numpy's global one whatever the seed
check_random_state_Global(seed, perms) == perms[None_]

\* sklearn's check_random_state(seed) and the permutation the generator
\* draws next: an int seed makes a new RandomState(seed) in every call, None
\* is numpy's global generator in the state earlier draws left it in
check_random_state(seed, perms) == perms[seed]

\* a split_data that drops the target column only if it is there
split_data_Lenient(test_size, random_state, d, target_column, perms) ==
    LET X == Columns(d, Kept(d, <<target_column>>))
        y == Columns(d, SelectSeq(<<ColIndex(d, target_column)>>,
                                  LAMBDA j : j # 0))
    IN  train_test_split(X, y, test_size, perms[random_state])

\* SimpleTrainTestSplitStrategy(test_size, random_state).split_data(df,
\* target_column); df.drop(columns=[target_column]) raises KeyError when the
\* column is absent
split_data(test_size, random_state, d, target_column, perms) ==
    IF ColIndex(d, target_column) = 0 THEN Raise("KeyError", "target_column")
    ELSE LET X == Columns(d, Kept(d, <<target_column>>))
             y == Columns(d, <<ColIndex(d, target_column)>>)
         IN  train_test_split(X, y, test_size,
                              check_random_state(random_state, perms))

TestSizes == {DefaultTestSize, Rat(1, 2)}
RandomStates == {DefaultRandomState, 0}
TargetColumns == {Col("SalePrice"), Col("absent")}

\* SimpleTrainTestSplitStrategy(test_size, random_state).split_data(df, target)
SplitData ==
    \E test_size \in TestSizes, random_state \in RandomStates,
       target_column \in TargetColumns :
        /\ call' = [op |-> "split_data", test_size |-> test_size,
                    random_state |-> random_state,
                    target_column |-> target_column]
        /\ out' = split_data(test_size, random_state, df, target_column,
                             shuffle)
        /\ UNCHANGED <<extracted_data, df, strategy, shuffle>>

\* data_splitter_step(df, target_column): DataSplitter with the default
\* SimpleTrainTestSplitStrategy()
DataSplitterStep ==
    \E target_column \in TargetColumns :
        /\ call' = [op |-> "data_splitter_step", test_size |-> DefaultTestSize,
                    random_state |-> DefaultRandomState,
                    target_column |-> target_column]
        /\ out' = split_data(DefaultTestSize, DefaultRandomState, df,
                             target_column, shuffle)
        /\ UNCHANGED <<extracted_data, df, strategy, shuffle>>

\* split inputs: a feature column and the target column
SplitTables(n) ==
    { DataFrame(<<Col("price"), Col("SalePrice")>>,
                <<"number", "number">>, ix, data) :
        ix \in Indexes(n),
        data \in [1..n -> { <<Num(p), Num(5)>> : p \in 0..MaxVal }] }

InitSplit ==
    /\ extracted_data = [p \in {} |-> 0]
    /\ \E n \in 0..MaxRows : df \in SplitTables(n)
    /\ call = NoCall
    /\ out = Return(NoData)
    /\ strategy = NoStrategy
    /\ shuffle \in [RandomStates -> RowPermutations(NRows(df))]

NextSplit == SplitData \/ DataSplitterStep

SpecSplit == InitSplit /\ [][NextSplit]_vars

(***************************************************************************)
(* Claims about splitting.                                                 *)
(***************************************************************************)
IsSplit ==
    /\ call.op \in {"split_data", "data_splitter_step"}
    /\ ColIndex(df, call.target_column) # 0

\* the train and test feature sets partition the rows of D and lack the
\* target column
SplitPartitions ==
    LET r == out.value
        labels(d) == Range(d.index)
    IN  /\ out.status = "ok"
        /\ NRows(r.X_train) + NRows(r.X_test) = NRows(df)
        /\ labels(r.X_train) \cap labels(r.X_test) = {}
        /\ labels(r.X_train) \cup labels(r.X_test) = labels(df)
        /\ Cardinality(labels(r.X_train)) = NRows(r.X_train)
        /\ Cardinality(labels(r.X_test)) = NRows(r.X_test)
        /\ ColIndex(r.X_train, call.target_column) = 0
        /\ ColIndex(r.X_test, call.target_column) = 0
        /\ r.X_train.cols = r.X_test.cols
        /\ NCols(r.X_train) = NCols(df) - 1

\* C7 (as claimed): for every dataset D containing the target column,
\* split_data returns train and test feature sets whose row counts add up
\* to that of D, that share no row, and that lack the target column.
C7_SplitAnyDataset == IsSplit => SplitPartitions

\* the number of test rows: ceil(test_size * n)
NTest == (call.test_size.n * NRows(df) + call.test_size.d - 1)
            \div call.test_size.d

\* C7 (amended): the same for every dataset D containing the target column
\* that leaves at least one training row, n - ceil(test_size * n) >= 1 (with
\* the default test_size 0.2: every D with at least two rows); a smaller D
\* is refused with ValueError.
C7_SplitLeavingTrainRows ==
    /\ (IsSplit /\ NRows(df) - NTest >= 1) => SplitPartitions
    /\ (IsSplit /\ call.test_size = DefaultTestSize /\ NRows(df) >= 2)
            => SplitPartitions

C7_Witness ==
    /\ IsSplit /\ out.status = "ok"
    /\ call.op = "data_splitter_step"
    /\ NRows(df) = 3
    /\ NRows(out.value.X_test) = 1 /\ NRows(out.value.X_train) = 2
    /\ out.value.X_train.index # SubSeq(df.index, 2, 3)

(***************************************************************************)
(* Data inspection and plotting strategies (analysis/analyze_src).         *)
(* They print or draw and return None; a result records what was shown.    *)
(***************************************************************************)
Shown(what) == Return([shown |-> what])

\* DataTypesInspectionStrategy.inspect: print(df.info())
DataTypesInspectionStrategy_inspect(d) == Shown(<<"info">>)

\* SummaryStatisticsInspectionStrategy.inspect: df.describe() cannot
\* describe a frame without columns, df.describe(include=["O"]) one without
\* an object column (ValueError)
SummaryStatisticsInspectionStrategy_inspect(d) ==
    IF NCols(d) = 0 \/ ~HasObjectColumn(d)
    THEN Raise("ValueError", "describe")
    ELSE Shown(<<"describe", "describe(include=['O'])">>)

\* NumericalUnivariateAnalysis.analyze: sns.histplot(df[feature])
NumericalUnivariateAnalysis_analyze(d, feature) ==
    IF ColIndex(d, feature) = 0 THEN Raise("KeyError", "feature")
    ELSE Shown(<<"histplot", feature>>)

\* CategoricalUnivariateAnalysis.analyze: sns.countplot(x=feature, data=df);
\* seaborn cannot interpret a name that is not a column (ValueError)
CategoricalUnivariateAnalysis_analyze(d, feature) ==
    IF ColIndex(d, feature) = 0 THEN Raise("ValueError", "feature")
    ELSE Shown(<<"countplot", feature>>)

\* NumericalVsNumericalAnalysis.analyze: sns.scatterplot(x, y, data=df)
NumericalVsNumericalAnalysis_analyze(d, feature1, feature2) ==
    IF ColIndex(d, feature1) = 0 \/ ColIndex(d, feature2) = 0
    THEN Raise("ValueError", "feature")
    ELSE Shown(<<"scatterplot", feature1, feature2>>)

\* CategoricalVsNumericalAnalysis.analyze: sns.boxplot(x, y, data=df)
CategoricalVsNumericalAnalysis_analyze(d, feature1, feature2) ==
    IF ColIndex(d, feature1) = 0 \/ ColIndex(d, feature2) = 0
    THEN Raise("ValueError", "feature")
    ELSE Shown(<<"boxplot", feature1, feature2>>)

(***************************************************************************)
(* The context objects: each is constructed with a strategy, set_strategy  *)
(* replaces it, and one operation delegates to it.                         *)
(***************************************************************************)
SimpleTrainTestSplitStrategy(test_size, random_state) ==
    [kind |-> "simple_train_test_split", test_size |-> test_size,
     random_state |-> random_state]

Contexts ==
    { "MissingValueHandler", "FeatureEngineer", "OutlierDetector",
      "DataSplitter", "DataInspector", "UnivariateAnalyzer",
      "BivariateAnalyzer" }

\* the strategy objects a caller may construct for a context
StrategiesOf(ctx) ==
    CASE ctx = "MissingValueHandler" ->
            { DropMissingValuesStrategy(0, NoCat),
              FillMissingValuesStrategy("mean", NoCat),
              FillMissingValuesStrategy("constant", Num(0)) }
      [] ctx = "FeatureEngineer" ->
            { LogTransformation(<<Col("price")>>),
              StandardScaling(<<Col("price")>>),
              MinMaxScaling(<<Col("price")>>),
              OneHotEncoding(<<Col("zone")>>) }
      [] ctx = "OutlierDetector" -> OutlierStrategies
      [] ctx = "DataSplitter" ->
            { SimpleTrainTestSplitStrategy(DefaultTestSize, DefaultRandomState),
              SimpleTrainTestSplitStrategy(Rat(1, 2), 0) }
      [] ctx = "DataInspector" ->
            { [kind |-> "data_types"], [kind |-> "summary_statistics"] }
      [] ctx = "UnivariateAnalyzer" ->
            { [kind |-> "numerical_univariate"],
              [kind |-> "categorical_univariate"] }
      [] ctx = "BivariateAnalyzer" ->
            { [kind |-> "numerical_vs_numerical"],
              [kind |-> "categorical_vs_numerical"] }

\* the column names the delegating operation takes besides the dataset:
\* split(df, target_column), execute_analysis(df, feature),
\* execute_strategy(df, feature1, feature2)
ArgsOf(ctx) ==
    LET names == {Col("price"), Col("zone"), Col("absent")}
    IN  CASE ctx = "DataSplitter" -> { <<t>> : t \in names }
          [] ctx = "UnivariateAnalyzer" -> { <<f>> : f \in names }
          [] ctx = "BivariateAnalyzer" ->
                { <<Col("zone"), f>> : f \in {Col("price"), Col("absent")} }
          [] OTHER -> { <<>> }

\* mutant of set_strategy: the strategy given is not taken
set_strategy_Ignored(held, s) == held

\* set_strategy: self._strategy = strategy
set_strategy(held, s) == s

\* the delegating operation of a context whose _strategy is s:
\* handle_missing_values, apply_feature_engineering, detect_outliers, split,
\* execute_strategy, execute_analysis. It calls the one method of s and
\* returns what that returns; cow and legacy are the pandas build, perms the
\* permutation each seed yields.
execute(ctx, s, d, args, cow, legacy, perms) ==
    CASE ctx = "MissingValueHandler" -> After(handle(s, d, cow, legacy), s)
      [] ctx = "FeatureEngineer" -> apply_transformation(s, d)
      [] ctx = "OutlierDetector" -> After(detect_outliers(s, d), s)
      [] ctx = "DataSplitter" ->
            After(split_data(s.test_size, s.random_state, d, args[1], perms), s)
      [] ctx = "DataInspector" ->
            After(IF s.kind = "data_types"
                  THEN DataTypesInspectionStrategy_inspect(d)
                  ELSE SummaryStatisticsInspectionStrategy_inspect(d), s)
      [] ctx = "UnivariateAnalyzer" ->
            After(IF s.kind = "numerical_univariate"
                  THEN NumericalUnivariateAnalysis_analyze(d, args[1])
                  ELSE CategoricalUnivariateAnalysis_analyze(d, args[1]), s)
      [] ctx = "BivariateAnalyzer" ->
            After(IF s.kind = "numerical_vs_numerical"
                  THEN NumericalVsNumericalAnalysis_analyze(d, args[1], args[2])
                  ELSE CategoricalVsNumericalAnalysis_analyze(d, args[1],
                                                              args[2]), s)

\* call.first and call.last remember the strategy the constructor was given
\* and the one most recently given to the constructor or to set_strategy
SetStrategy ==
    \E s \in StrategiesOf(call.ctx) :
        /\ strategy' = set_strategy(strategy, s)
        /\ call' = [op |-> "set_strategy", ctx |-> call.ctx,
                    first |-> call.first, last |-> s, args |-> <<>>]
        /\ out' = Return(NoData)
        /\ UNCHANGED <<extracted_data, df, shuffle>>

ExecuteStrategy ==
    \E args \in ArgsOf(call.ctx), cow \in BOOLEAN, legacy \in BOOLEAN :
        LET after == execute(call.ctx, strategy, df, args, cow, legacy, shuffle)
        IN  /\ strategy' = after.strategy
            /\ out' = after.result
            /\ call' = [op |-> "execute", ctx |-> call.ctx,
                        first |-> call.first, last |-> call.last,
                        args |-> args]
            /\ UNCHANGED <<extracted_data, df, shuffle>>

\* a context of any of the seven kinds, constructed with a strategy s0
InitContext ==
    /\ extracted_data = [p \in {} |-> 0]
    /\ \E n \in 0..MaxFeatRows : df \in SmallTables(n) \cup PriceTables(n)
    /\ \E ctx \in Contexts : \E s0 \in StrategiesOf(ctx) :
        /\ strategy = s0
        /\ call = [op |-> "init", ctx |-> ctx, first |-> s0, last |-> s0,
                   args |-> <<>>]
        /\ shuffle \in IF ctx = "DataSplitter"
                        THEN [RandomStates -> RowPermutations(NRows(df))]
                        ELSE {NoShuffle}
    /\ out = Return(NoData)

NextContext == SetStrategy \/ ExecuteStrategy

SpecContext == InitContext /\ [][NextContext]_vars

(***************************************************************************)
(* Claims about the context objects.                                       *)
(***************************************************************************)
\* the strategy object as it was handed over: its scaler or encoder is part
\* of the same object, whatever a call has fit on it
Handed(s) ==
    IF s.kind \in {"standard_scaling", "minmax_scaling"}
    THEN [s EXCEPT !.scaler = Unfitted]
    ELSE IF s.kind = "onehot_encoding" THEN [s EXCEPT !.encoder = Unfitted]
    ELSE s

\* C12: every context object holds exactly one strategy: after construction
\* with s0 and any sequence of set_strategy calls the held strategy is the
\* one most recently given (s0 if none was), the delegating operation
\* returns what that strategy's method returns on the dataset, and
\* executing does not change the held strategy.
C12_DelegatesToLastSet ==
    /\ Handed(strategy) = call.last
    /\ call.op = "init" => call.last = call.first
    /\ call.op = "execute" =>
        \E cow \in BOOLEAN, legacy \in BOOLEAN :
            out = execute(call.ctx, call.last, df, call.args, cow, legacy,
                          shuffle).result

\* a context constructed with one strategy executes another one set later
C12_Witness ==
    /\ call.op = "execute"
    /\ call.last # call.first
    /\ out.status = "ok"
    /\ out # execute(call.ctx, call.first, df, call.args, FALSE, FALSE,
                     shuffle).result

(***************************************************************************)
(* One strategy object applied to one dataset after another: the scaler    *)
(* or encoder made by the constructor stays on the object between calls.   *)
(***************************************************************************)
\* the scaler or encoder a strategy object carries
Fitted(s) == IF s.kind = "onehot_encoding" THEN s.encoder ELSE s.scaler

StatefulStrategies ==
    { StandardScaling(<<Col("price")>>), MinMaxScaling(<<Col("price")>>),
      OneHotEncoding(<<Col("zone")>>) }

\* the datasets a strategy object is applied to in turn: at most one null
\* in a column
RefitTables(n) ==
    { d \in SmallTables(n) :
        \A j \in 1..NCols(d) :
            Cardinality({ i \in 1..n : IsNull(d.data[i][j]) }) <= 1 }

\* strategy.apply_transformation(d) for any dataset d; call.before is the
\* scaler or encoder as the call found it
ApplyTransformation ==
    \E n \in 0..MaxFeatRows : \E d \in RefitTables(n) :
        LET after == apply_transformation(strategy, d)
        IN  /\ df' = d
            /\ strategy' = after.strategy
            /\ out' = after.result
            /\ call' = [op |-> "apply_transformation",
                        before |-> Fitted(strategy)]
            /\ UNCHANGED <<extracted_data, shuffle>>

\* a strategy object as constructed, no dataset seen yet
InitRefit ==
    /\ extracted_data = [p \in {} |-> 0]
    /\ df = NoData
    /\ strategy \in StatefulStrategies
    /\ call = [op |-> "init", before |-> Unfitted]
    /\ out = Return(NoData)
    /\ shuffle = NoShuffle

NextRefit == ApplyTransformation

SpecRefit == InitRefit /\ [][NextRefit]_vars

\* C13: StandardScaling, MinMaxScaling and OneHotEncoding carry no state
\* from one call to the next: whatever dataset the same strategy object was
\* applied to before, apply_transformation(D2) returns what a newly
\* constructed strategy with the same features returns for D2.
C13_FitFreshEveryCall ==
    call.op = "apply_transformation" =>
        out = apply_transformation(Handed(strategy), df).result

\* the object was fit on another dataset before, with other statistics or
\* categories than this call's
C13_Witness ==
    /\ call.op = "apply_transformation"
    /\ out.status = "ok"
    /\ call.before.fitted
    /\ call.before # Fitted(strategy)

(***************************************************************************)
(* Further claims about missing-value handling.                            *)
(***************************************************************************)
KnownFillMethods == {"mean", "median", "mode", "constant"}

\* C14: FillMissingValuesStrategy constructed with a method name outside
\* {mean, median, mode, constant} does not fail: handle(D) logs a warning
\* and returns a dataset equal to D, nulls included.
C14_UnknownMethodWarnsAndReturns ==
    (call.op = "fill" /\ call.method \notin KnownFillMethods) =>
        /\ out.status = "ok"
        /\ out.msg = "WARNING"
        /\ out.value = df

\* an unknown method on a dataset with a null in each column
C14_Witness ==
    /\ call.op = "fill" /\ call.method \notin KnownFillMethods
    /\ out.status = "ok"
    /\ NRows(df) >= 2
    /\ \A j \in 1..NCols(df) : \E i \in 1..NRows(df) :
            IsNull(out.value.data[i][j])

(***************************************************************************)
(* The pipeline steps that select a strategy by name (steps/).             *)
(***************************************************************************)
\* handle_missing_values_step(df, strategy): "drop" builds
\* DropMissingValuesStrategy(axis=0), a fill name builds
\* FillMissingValuesStrategy(method=strategy), both with the other
\* constructor argument left at None; any other name is refused
handle_missing_values_step(d, name, cow, legacy) ==
    IF name = "drop"
    THEN handle(DropMissingValuesStrategy(0, NoCat), d, cow, legacy)
    ELSE IF name \in {"mean", "median", "mode", "constant"}
    THEN handle(FillMissingValuesStrategy(name, NoCat), d, cow, legacy)
    ELSE Raise("ValueError", "Unsupported missing value handling strategy")

\* feature_engineering_step(df, strategy, features): the name selects the
\* strategy class, any other name is refused
feature_engineering_step(d, name, features) ==
    IF name = "log"
    THEN apply_transformation(LogTransformation(features), d).result
    ELSE IF name = "standard_scaling"
    THEN apply_transformation(StandardScaling(features), d).result
    ELSE IF name = "minmax_scaling"
    THEN apply_transformation(MinMaxScaling(features), d).result
    ELSE IF name = "onehot_encoding"
    THEN apply_transformation(OneHotEncoding(features), d).result
    ELSE Raise("ValueError", "Unsupported strategy")

MissingValueStepNames ==
    {"drop", "mean", "median", "mode", "constant", "other"}
FeatureStepNames ==
    {"log", "standard_scaling", "minmax_scaling", "onehot_encoding", "other"}

HandleMissingValuesStep ==
    \E name \in MissingValueStepNames, cow \in BOOLEAN, legacy \in BOOLEAN :
        /\ call' = [op |-> "handle_missing_values_step", strategy |-> name]
        /\ out' = handle_missing_values_step(df, name, cow, legacy)
        /\ UNCHANGED <<extracted_data, df, strategy, shuffle>>

FeatureEngineeringStep ==
    \E name \in FeatureStepNames, features \in FeatureLists :
        /\ call' = [op |-> "feature_engineering_step", strategy |-> name,
                    features |-> features]
        /\ out' = feature_engineering_step(df, name, features)
        /\ UNCHANGED <<extracted_data, df, strategy, shuffle>>

\* a dataset at hand and an OutlierDetector holding a strategy
InitSteps ==
    /\ extracted_data = [p \in {} |-> 0]
    /\ \E n \in 0..MaxFeatRows : df \in SmallTables(n) \cup PriceTables(n)
    /\ call = NoCall
    /\ out = Return(NoData)
    /\ strategy \in OutlierStrategies
    /\ shuffle = NoShuffle

NextSteps == HandleMissingValuesStep \/ FeatureEngineeringStep \/ HandleOutliers

SpecSteps == InitSteps /\ [][NextSteps]_vars

RaisesValueError == out.status = "raise" /\ out.exc = "ValueError"

\* C15: an unsupported selector is rejected with ValueError and no dataset
\* is returned: a strategy name outside {drop, mean, median, mode, constant}
\* in handle_missing_values_step, a strategy name outside {log,
\* standard_scaling, minmax_scaling, onehot_encoding} in
\* feature_engineering_step, and a method outside {remove, cap} in
\* OutlierDetector.handle_outliers.
C15_UnsupportedSelectorRejected ==
    /\ (/\ call.op = "handle_missing_values_step"
        /\ call.strategy \notin {"drop", "mean", "median", "mode", "constant"})
            => RaisesValueError
    /\ (/\ call.op = "feature_engineering_step"
        /\ call.strategy \notin {"log", "standard_scaling", "minmax_scaling",
                                 "onehot_encoding"})
            => RaisesValueError
    /\ (call.op = "handle_outliers" /\ call.method \notin {"remove", "cap"})
            => RaisesValueError

\* C22: for every strategy name that handle_missing_values_step accepts
\* (drop, mean, median, mode, constant) and every dataset the step completes
\* and returns a dataset; for "constant" the returned dataset has the
\* labels and rows of the input and no null is left in it.
C22_AcceptedNameCompletes ==
    (/\ call.op = "handle_missing_values_step"
     /\ call.strategy \in {"drop", "mean", "median", "mode", "constant"}) =>
        /\ out.status = "ok"
        /\ call.strategy = "constant" =>
                /\ out.value.cols = df.cols
                /\ NRows(out.value) = NRows(df)
                /\ \A i \in 1..NRows(df), j \in 1..NCols(df) :
                        ~IsNull(out.value.data[i][j])

(***************************************************************************)
(* Operations that take column names.                                      *)
(***************************************************************************)
\* datasets with the columns price and zone, or price and SalePrice
InitColumns ==
    /\ extracted_data = [p \in {} |-> 0]
    /\ \E n \in 0..MaxFeatRows : df \in SmallTables(n) \cup SplitTables(n)
    /\ call = NoCall
    /\ out = Return(NoData)
    /\ strategy = NoStrategy
    /\ shuffle \in [RandomStates -> RowPermutations(NRows(df))]

NextColumns == Log \/ OneHot \/ StandardScale \/ MinMaxScale \/ SplitData

SpecColumns == InitColumns /\ [][NextColumns]_vars

Labels(d) == { d.cols[j] : j \in 1..NCols(d) }

\* C17: an operation given a column name absent from the dataset fails and
\* returns no dataset: split_data with an absent target column, and the log,
\* standard-scaling, min-max-scaling and one-hot strategies with an absent
\* feature.
C17_AbsentColumnFails ==
    /\ (/\ call.op \in {"log", "standard_scaling", "minmax_scaling", "onehot"}
        /\ \E k \in 1..Len(call.features) : call.features[k] \notin Labels(df))
            => out.status = "raise"
    /\ (call.op = "split_data" /\ call.target_column \notin Labels(df))
            => out.status = "raise"

\* each of the five operations has met an absent name on a dataset it would
\* otherwise have accepted
C17_Witness ==
    /\ NRows(df) = MaxFeatRows
    /\ out.status = "raise"
    /\ \/ /\ call.op \in {"log", "standard_scaling", "minmax_scaling",
                          "onehot"}
          /\ call.features = <<Col("absent")>>
       \/ /\ call.op = "split_data"
          /\ call.target_column \notin Labels(df)
          /\ Col("price") \in Labels(df)

(***************************************************************************)
(* Composition: the result of one operation is the input of the next, in   *)
(* the order of pipelines/training_pipeline.py: missing values, feature    *)
(* engineering, outliers. Any stage may be left out; a raise ends the run. *)
(***************************************************************************)
Stage(op) ==
    CASE op = "none" -> 0
      [] op \in {"fill", "drop"} -> 1
      [] op \in {"log", "standard_scaling", "minmax_scaling",
                 "onehot_encoding"} -> 2
      [] OTHER -> 3

\* the call c with the result r: a returned dataset becomes the dataset;
\* call.given remembers how many rows the call was given
Then(c, r) ==
    /\ out.status = "ok"
    /\ Stage(call.op) < Stage(c.op)
    /\ call' = [given |-> NRows(df)] @@ c
    /\ out' = r
    /\ df' = IF r.status = "ok" THEN r.value ELSE df
    /\ UNCHANGED <<extracted_data, strategy, shuffle>>

\* every cell is a number, a string or a null (the cells outlier detection
\* is computed on exactly)
Plain(d) ==
    \A i \in 1..NRows(d), j \in 1..NCols(d) :
        d.data[i][j].k \in {"num", "str", "nan"}

ThenFill ==
    \E method \in FillMethods, fill_value \in FillValues, cow \in BOOLEAN :
        Then([op |-> "fill", method |-> method, fill_value |-> fill_value],
             handle(FillMissingValuesStrategy(method, fill_value), df, cow,
                    TRUE))

ThenDrop ==
    \E axis \in DropAxes, thresh \in DropThresholds, legacy \in BOOLEAN :
        Then([op |-> "drop", axis |-> axis, thresh |-> thresh],
             handle(DropMissingValuesStrategy(axis, thresh), df, TRUE, legacy))

ThenEngineer ==
    \E features \in FeatureLists :
        \E s \in { LogTransformation(features), StandardScaling(features),
                   MinMaxScaling(features), OneHotEncoding(features) } :
            Then([op |-> s.kind, features |-> features],
                 apply_transformation(s, df).result)

ThenHandleOutliers ==
    \E s \in OutlierStrategies, method \in HandleMethods :
        /\ Plain(df)
        /\ Then([op |-> "handle_outliers", method |-> method, detector |-> s],
                handle_outliers(s, df, method))

\* detection reports on the dataset and leaves it as it is
ThenDetectOutliers ==
    \E s \in OutlierStrategies :
        /\ Plain(df)
        /\ out.status = "ok"
        /\ Stage(call.op) < 3
        /\ call' = [op |-> "detect_outliers", detector |-> s,
                    given |-> NRows(df)]
        /\ out' = detect_outliers(s, df)
        /\ UNCHANGED <<extracted_data, df, strategy, shuffle>>

InitCompose ==
    /\ extracted_data = [p \in {} |-> 0]
    /\ \E n \in 0..MaxFeatRows : df \in SmallTables(n)
    /\ call = NoCall
    /\ out = Return(df)
    /\ strategy = NoStrategy
    /\ shuffle = NoShuffle

NextCompose ==
    ThenFill \/ ThenDrop \/ ThenEngineer \/ ThenHandleOutliers
        \/ ThenDetectOutliers

SpecCompose == InitCompose /\ [][NextCompose]_vars

\* the explicit filtering operations
Filters(c) ==
    \/ c.op = "drop" /\ c.axis = 0
    \/ c.op = "handle_outliers" /\ c.method = "remove"

\* C18: through any composition of the dataset-transforming operations, an
\* operation that returns a dataset never returns more rows than it was
\* given, and returns exactly as many unless it is DropMissingValuesStrategy
\* with axis=0 or handle_outliers("remove"): every fill method, every
\* feature-engineering strategy, outlier detection and capping keep the row
\* count.
C18_RowsShrinkOnlyByFiltering ==
    [][(call'.op # "none" /\ out'.status = "ok") =>
            /\ NRows(out'.value) <= NRows(df)
            /\ ~Filters(call') => NRows(out'.value) = NRows(df)]_vars

\* outlier removal took rows away from a dataset that an earlier operation
\* of the composition had made numeric (the inputs have a string column)
C18_Witness ==
    /\ call.op = "handle_outliers"
    /\ call.method = "remove"
    /\ out.status = "ok"
    /\ NCols(out.value) > 1
    /\ NRows(out.value) < call.given

(***************************************************************************)
(* Repeated splits of one dataset, seeded and unseeded.                    *)
(***************************************************************************)
\* datasets whose rows all differ
DistinctRowTables(n) ==
    { DataFrame(<<Col("price"), Col("SalePrice")>>, <<"number", "number">>,
                ix, [i \in 1..n |-> <<Num(i), Num(5)>>]) :
        ix \in Indexes(n) }

\* SimpleTrainTestSplitStrategy(test_size, random_state).split_data(df,
\* target_column), with random_state a seed or None. An unseeded call draws
\* from the global generator and leaves it in another state. call.noted
\* remembers one earlier seeded call and its result, call.moved whether the
\* global generator has drawn since.
SplitAgain ==
    \E test_size \in TestSizes, random_state \in RandomStates \cup {None_},
       target_column \in TargetColumns, note \in BOOLEAN :
        LET r == split_data(test_size, random_state, df, target_column,
                            shuffle)
            args == [test_size |-> test_size, random_state |-> random_state,
                     target_column |-> target_column]
            noting == call.noted = NoCall /\ note /\ random_state # None_
        IN  /\ out' = r
            /\ call' = [op |-> "split_data", args |-> args,
                        noted |-> IF noting THEN [args |-> args, out |-> r]
                                  ELSE call.noted,
                        moved |-> /\ call.noted # NoCall
                                  /\ (call.moved \/ random_state = None_)]
            /\ shuffle' \in
                    IF random_state = None_
                    THEN { [shuffle EXCEPT ![None_] = p] :
                                p \in RowPermutations(NRows(df)) }
                    ELSE {shuffle}
            /\ UNCHANGED <<extracted_data, df, strategy>>

InitReseed ==
    /\ extracted_data = [p \in {} |-> 0]
    /\ \E n \in 0..MaxFeatRows : df \in DistinctRowTables(n)
    /\ call = [op |-> "none", noted |-> NoCall, moved |-> FALSE]
    /\ out = Return(NoData)
    /\ strategy = NoStrategy
    /\ shuffle \in [RandomStates \cup {None_} -> RowPermutations(NRows(df))]

NextReseed == SplitAgain

SpecReseed == InitReseed /\ [][NextReseed]_vars

\* C20: two split_data calls on the same dataset with the same test_size,
\* the same seed (the defaults 0.2 and 42 among them) and the same target
\* return identical results, whatever splits, seeded or not, were made in
\* between.
C20_SameSeedSameSplit ==
    (/\ call.op = "split_data"
     /\ call.noted # NoCall
     /\ call.args = call.noted.args) => out = call.noted.out

\* the default split was repeated after an unseeded split had moved the
\* global generator to a permutation other than the seed's
C20_Witness ==
    /\ call.op = "split_data"
    /\ call.noted # NoCall
    /\ call.moved
    /\ call.args = call.noted.args
    /\ call.args.test_size = DefaultTestSize
    /\ call.args.random_state = DefaultRandomState
    /\ NRows(df) = MaxFeatRows
    /\ out.status = "ok"
    /\ shuffle[None_] # shuffle[DefaultRandomState]

(***************************************************************************)
(* Multivariate analysis (analysis/analyze_src/multivariate_analysis.py).  *)
(***************************************************************************)
\* the methods MultivariateAnalysisStrategy marks @abstractmethod, analyze
\* (which has a body) among them, and those SimpleMultivariateAnalysis
\* defines
AbstractMethods ==
    {"analyze", "generate_correlation_heatmap", "generate_pairplot"}
SimpleMultivariateAnalysisMethods ==
    {"generate_correlation_heatmap", "generate_pairplot"}

\* SimpleMultivariateAnalysis(): ABCMeta refuses to instantiate a class that
\* leaves an abstract method without an override (TypeError)
SimpleMultivariateAnalysis ==
    IF AbstractMethods \ SimpleMultivariateAnalysisMethods # {}
    THEN Raise("TypeError", "Can't instantiate abstract class")
    ELSE Return([kind |-> "simple_multivariate"])

\* generate_correlation_heatmap: sns.heatmap(df.corr(), ...); df.corr()
\* leaves string columns out in pandas 1 (legacy) and cannot convert them
\* in pandas 2 (ValueError)
generate_correlation_heatmap(d, legacy) ==
    IF HasObjectColumn(d) /\ NRows(d) > 0 /\ ~legacy
    THEN Raise("ValueError", "could not convert string to float")
    ELSE Shown(<<"heatmap">>)

\* generate_pairplot: sns.pairplot(df)
generate_pairplot(d) == Shown(<<"pairplot">>)

\* MultivariateAnalysisStrategy.analyze: the heatmap, then the pair plot
MultivariateAnalysisStrategy_analyze(d, legacy) ==
    LET heatmap == generate_correlation_heatmap(d, legacy)
        pairplot == generate_pairplot(d)
    IN  IF heatmap.status = "raise" THEN heatmap
        ELSE IF pairplot.status = "raise" THEN pairplot
        ELSE Shown(heatmap.value.shown \o pairplot.value.shown)

\* multivariate_analyzer = SimpleMultivariateAnalysis();
\* multivariate_analyzer.analyze(df)
MultivariateAnalysis ==
    \E legacy \in BOOLEAN :
        LET analyzer == SimpleMultivariateAnalysis
        IN  /\ call' = [op |-> "multivariate_analysis"]
            /\ out' = IF analyzer.status = "raise" THEN analyzer
                      ELSE MultivariateAnalysisStrategy_analyze(df, legacy)
            /\ UNCHANGED <<extracted_data, df, strategy, shuffle>>

InitMultivariate ==
    /\ extracted_data = [p \in {} |-> 0]
    /\ \E n \in 0..MaxFeatRows : df \in SmallTables(n) \cup PriceTables(n)
    /\ call = NoCall
    /\ out = Return(NoData)
    /\ strategy = NoStrategy
    /\ shuffle = NoShuffle

NextMultivariate == MultivariateAnalysis

SpecMultivariate == InitMultivariate /\ [][NextMultivariate]_vars

\* C23: a SimpleMultivariateAnalysis object can be created, and its
\* analyze(D) on a numeric dataset D renders the correlation heatmap first
\* and the pair plot second, each exactly once, and returns no value.
C23_HeatmapThenPairplot ==
    (call.op = "multivariate_analysis" /\ ~HasObjectColumn(df)) =>
        /\ out.status = "ok"
        /\ out.value = [shown |-> <<"heatmap", "pairplot">>]

(***************************************************************************)
(* The caller's dataset across the dataset-transforming operations.        *)
(* Drop, detect_outliers, handle_outliers and split_data call only methods *)
(* that return new objects (dropna, comparison, indexing, clip, drop).     *)
(***************************************************************************)
InitCaller ==
    /\ extracted_data = [p \in {} |-> 0]
    /\ \E n \in 0..MaxFeatRows :
        /\ df \in SmallTables(n) \cup PriceTables(n) \cup DistinctRowTables(n)
        /\ shuffle = [r \in RandomStates |-> [i \in 1..n |-> i]]
    /\ call = NoCall
    /\ out = Return(NoData)
    /\ strategy \in OutlierStrategies

NextCaller ==
    Fill \/ Drop \/ Log \/ OneHot \/ StandardScale \/ MinMaxScale
        \/ DetectOutliers \/ HandleOutliers \/ SplitData

SpecCaller == InitCaller /\ [][NextCaller]_vars

\* C24: no dataset-transforming operation modifies the dataset passed to
\* it: after handle, apply_transformation, detect_outliers, handle_outliers
\* or split_data, returned or raised, the caller's dataset has the columns,
\* rows and cells it had before the call.
C24_InputUntouched ==
    [][call'.op \in {"fill", "drop", "log", "onehot", "standard_scaling",
                     "minmax_scaling", "detect_outliers", "handle_outliers",
                     "split_data"} => df' = df]_vars

\* a fill or a feature strategy that writes in place returned a dataset
\* that differs from the caller's, which still has its nulls
C24_Witness ==
    /\ call.op \in {"fill", "log", "standard_scaling", "minmax_scaling"}
    /\ out.status = "ok"
    /\ out.value # df
    /\ NRows(df) = MaxFeatRows
    /\ \E i \in 1..NRows(df) : IsNull(df.data[i][1])

====
